---- MODULE Spec2Model ----
(***************************************************************************)
(* Change-review workflow of the ledger-mpv backend                        *)
(* (src/backend/src/server.ts).  The store is the relational database      *)
(* behind Prisma; every table is a sequence of rows whose index is the     *)
(* row id.  Each HTTP request occupies a slot of `req`.  The apply and     *)
(* approve handlers advance one awaited store call per step, so that two   *)
(* requests may interleave between the read of a ChangeSet and the write   *)
(* of its status; the other handlers run as one step.                      *)
(***************************************************************************)
EXTENDS Integers, Sequences, FiniteSets, TLC

\* ------------------------------------------------------------------ bounds
MaxChangeSets == 1
MaxInventory == 1
MaxTracks == 1
MaxAudit == 4
MaxTasks == 1
MaxTaskAudit == 3
MaxLensChangeSets == 2
MaxAnswers == 1
MaxPlannings == 2
MaxLocations == 1

\* ------------------------------------------------------- fixed reference data
\* One household with an ADMIN, a MEMBER and an actor without membership.
E1 == "E1"
Actors == {"admin", "member", "outsider"}
ResourceIds == {"R1"}
LocationIds == {"L1"}
Requests == {"q1", "q2"}
SeqRequests == {"q1"}

None == <<>>
Some(x) == <<x>>

AnyRole == {"ADMIN", "MEMBER"}
AdminOnly == {"ADMIN"}

defaultLensTypes == <<"INVENTORY_LENS", "MEAL_PLAN_LENS">>

VARIABLES
    actor,          \* set of Actor rows, by id
    answer,         \* Answer table
    goal,           \* Goal table
    entity,         \* set of Entity rows, by id
    location,       \* Location table
    planning,       \* Planning table
    entityActor,    \* set of EntityActor rows
    changeSet,      \* ChangeSet table
    question,       \* Question table
    task,           \* Task table
    inventoryItem,  \* InventoryItem table (deleted rows keep their id, live = FALSE)
    auditLog,       \* AuditLog table
    sensor,         \* Sensor table
    lens,           \* Lens table
    track,          \* Track table
    lensRun,        \* LensRun table
    clock,          \* number of timestamps handed out by new Date()
    taskActor,      \* TaskActor table
    auditDown,      \* the AuditLog table rejects writes
    consoleErrors,  \* number of "Failed to write audit log" lines on the console
    req             \* per request slot: handler, position, locals, response

store == <<actor, answer, goal, planning, entity, location, entityActor, changeSet, question, task, inventoryItem, auditLog,
           sensor, lens, track, lensRun, clock, taskActor, auditDown, consoleErrors>>
vars == <<actor, answer, goal, planning, entity, location, entityActor, changeSet, question, task, inventoryItem, auditLog,
          sensor, lens, track, lensRun, clock, taskActor, auditDown, consoleErrors, req>>

\* what a route handler can touch: everything but the Actor table, which only
\* the authentication middleware and POST /actors write
handlerStore == <<answer, goal, planning, entity, location, entityActor, changeSet, question, task, inventoryItem, auditLog,
                  sensor, lens, track, lensRun, clock, taskActor, auditDown, consoleErrors>>

\* ------------------------------------------------------------- row helpers
NoChangeSet ==
    [entityId |-> "none", taskId |-> 0, subjectType |-> "none", subjectId |-> 0,
     type |-> "none", payload |-> [items |-> <<>>, tasks |-> <<>>], status |-> "none",
     approvedAt |-> 0, appliedAt |-> 0]

NewChangeSet(entityId, subjectType, subjectId, type, payload) ==
    [entityId |-> entityId, taskId |-> 0, subjectType |-> subjectType,
     subjectId |-> subjectId, type |-> type, payload |-> payload, status |-> "PENDING",
     approvedAt |-> 0, appliedAt |-> 0]

NewQuestion(entityId, changeSetId) ==
    [entityId |-> entityId, changeSetId |-> changeSetId, subjectType |-> "CHANGESET",
     subjectId |-> changeSetId, questionType |-> "BOOLEAN", batchId |-> changeSetId]

\* the `existing` local of setStatus before its findUnique
NoTask ==
    [entityId |-> "none", type |-> "none", status |-> "none", locationId |-> <<>>,
     metadata |-> <<>>, tags |-> <<>>]

IdleReq ==
    [op |-> "none", pc |-> "idle", actorId |-> "none", changeSetId |-> 0,
     snap |-> NoChangeSet, idx |-> 0, result |-> <<>>, resp |-> 0,
     taskId |-> 0, status |-> "none", existing |-> NoTask,
     assignee |-> "none", role |-> "none", lensRunId |-> 0,
     sensorType |-> "none", lensType |-> "none",
     periodStart |-> "none", goalId |-> 0, entityId |-> "none"]

Input(op, actorId, id) ==
    [op |-> op, pc |-> "done", actorId |-> actorId, changeSetId |-> id,
     snap |-> NoChangeSet, idx |-> 0, result |-> <<>>, resp |-> 0,
     taskId |-> 0, status |-> "none", existing |-> NoTask,
     assignee |-> "none", role |-> "none", lensRunId |-> 0,
     sensorType |-> "none", lensType |-> "none",
     periodStart |-> "none", goalId |-> 0, entityId |-> "none"]

\* a request on a Task: req.params.taskId and the status of its body
TaskInput(op, actorId, taskId, status) ==
    [Input(op, actorId, 0) EXCEPT !.taskId = taskId, !.status = status]

\* a request on a LensRun: req.params.lensRunId; id is the ChangeSet it creates
LensRunInput(actorId, id, lensRunId) ==
    [Input("processLensRun", actorId, id) EXCEPT !.lensRunId = lensRunId]

\* a createTrack request: sensorType and lensType of its body
TrackInput(actorId, sensorType, lensType) ==
    [Input("createTrack", actorId, 0) EXCEPT !.sensorType = sensorType,
                                             !.lensType = lensType]

\* a weekly-plan goal request: the start of the period, from the body or from
\* weekRange()
GoalInput(actorId, periodStart) ==
    [Input("weeklyPlanGoal", actorId, 0) EXCEPT !.periodStart = periodStart]

\* a join request: req.params.entityId
JoinInput(actorId, entityId) ==
    [Input("join", actorId, 0) EXCEPT !.entityId = entityId]

\* an assign / unassign request: req.params.taskId, body actorId and role
AssignInput(op, actorId, taskId, assignee, role) ==
    [Input(op, actorId, 0) EXCEPT !.taskId = taskId, !.assignee = assignee, !.role = role]

\* the response is sent; the handler's locals are gone, what it returned stays
Respond(r, code) ==
    [r EXCEPT !.pc = "done", !.resp = code, !.snap = NoChangeSet, !.idx = 0,
              !.existing = NoTask]

Free(q) == req[q].pc \in {"idle", "done"}

\* a membership test that forgets the role filter
assertMembershipAnyRole(entityId, actorId, roles) ==
    \E m \in entityActor : m.entityId = entityId /\ m.actorId = actorId

\* src/backend/src/auth.ts upsertActorFromClerk: prisma.actor.upsert by email
upsertActorFromClerk(rows, userId) == rows \cup {userId}

\* attachAuth without Clerk: req.actorId is the x-actor-id header, nothing is written
DevAuth(userId) == UNCHANGED actor

\* attachAuth with Clerk: req.actorId = await upsertActorFromClerk(auth.userId)
ClerkAuth(userId) == actor' = upsertActorFromClerk(actor, userId)

\* src/backend/src/auth.ts attachAuth: the Clerk branch when Clerk is enabled,
\* the x-actor-id header otherwise
attachAuth(clerkEnabled, userId) ==
    IF clerkEnabled THEN ClerkAuth(userId) ELSE DevAuth(userId)

\* POST /actors: prisma.actor.create; the email is unique
CreateActor(q, actorId) ==
    /\ Free(q)
    /\ IF actorId \in actor
       THEN /\ req' = [req EXCEPT ![q] = Respond(Input("createActor", actorId, 0), 500)]
            /\ UNCHANGED store
       ELSE /\ actor' = actor \cup {actorId}
            /\ req' = [req EXCEPT ![q] = Respond(Input("createActor", actorId, 0), 200)]
            /\ UNCHANGED handlerStore

\* requireActor: no actor context, 401
RequireActor(q) ==
    /\ Free(q)
    /\ req' = [req EXCEPT ![q] = Respond(Input("unauthenticated", "none", 0), 401)]
    /\ UNCHANGED store

\* src/backend/src/server.ts assertMembership
assertMembership(entityId, actorId, roles) ==
    \E m \in entityActor :
        m.entityId = entityId /\ m.actorId = actorId /\ m.role \in roles

\* a logAudit that keeps only its own row
logAuditReplacing(log, entityId, actorId, subjectType, subjectId, action) ==
    IF auditDown THEN log
    ELSE <<[entityId |-> entityId, actorId |-> actorId,
            subjectType |-> subjectType, subjectId |-> subjectId,
            action |-> action]>>

\* src/backend/src/server.ts logAudit: the row it writes, unless the write fails
logAudit(log, entityId, actorId, subjectType, subjectId, action) ==
    IF auditDown THEN log
    ELSE Append(log, [entityId |-> entityId, actorId |-> actorId,
                      subjectType |-> subjectType, subjectId |-> subjectId,
                      action |-> action])

\* logAudit: `catch (err) { console.error("Failed to write audit log", err) }`
logErrors == IF auditDown THEN consoleErrors + 1 ELSE consoleErrors

\* a logAudit without its catch: the failure reaches the handler's respondError
AuditedResponseRethrown(code) == IF auditDown THEN 500 ELSE code

\* the response of a handler after its `await logAudit(...)`: logAudit never throws
AuditedResponse(code) == code

\* src/backend/src/server.ts ensureBaseLocations: Home and its three children,
\* unless the entity has a Location already
ensureBaseLocations(rows, entityId) ==
    IF \E i \in 1..Len(rows) : rows[i].entityId = entityId THEN rows
    ELSE LET home == Len(rows) + 1
         IN  rows \o <<[entityId |-> entityId, name |-> "Home", parentId |-> 0],
                       [entityId |-> entityId, name |-> "Pantry", parentId |-> home],
                       [entityId |-> entityId, name |-> "Fridge", parentId |-> home],
                       [entityId |-> entityId, name |-> "Freezer", parentId |-> home]>>

\* Requests are admitted while the audit table and the console have room for
\* what the requests in flight may still write.
InFlight == Cardinality({q \in Requests : ~Free(q)})
\* The entries about Questions are bounded with the Answer table.
AnswerAudits == Cardinality({i \in 1..Len(auditLog) : auditLog[i].subjectType = "QUESTION"})
Room == Len(auditLog) - AnswerAudits + consoleErrors + InFlight < MaxAudit

\* Requests on tasks are admitted while the audit table has room for their entries.
TaskAudits == Cardinality({i \in 1..Len(auditLog) : auditLog[i].subjectType = "TASK"})
TaskRoom == TaskAudits + consoleErrors + InFlight < MaxTaskAudit

Init ==
    /\ actor = {"admin", "member"}
    /\ answer = <<>>
    /\ goal = <<>>
    /\ entity = {E1}
    /\ location = ensureBaseLocations(<<>>, E1)
    /\ planning = <<>>
    /\ entityActor = {[entityId |-> E1, actorId |-> "admin", role |-> "ADMIN"],
                      [entityId |-> E1, actorId |-> "member", role |-> "MEMBER"]}
    /\ changeSet = <<>>
    /\ question = <<>>
    /\ task = <<>>
    /\ inventoryItem = <<>>
    /\ auditLog = <<>>
    /\ sensor = <<[entityId |-> E1, type |-> "MOBILE_CAMERA"],
                  [entityId |-> E1, type |-> "WEB_UPLOAD"]>>
    /\ lens = defaultLensTypes
    /\ track = <<>>
    /\ lensRun = <<>>
    /\ clock = 0
    /\ taskActor = <<>>
    /\ auditDown = FALSE
    /\ consoleErrors = 0
    /\ req = [q \in Requests |-> IdleReq]

\* ------------------------------------------------------------ request inputs
Item(resourceId, locationId, quantity, action, inventoryItemId) ==
    [resourceId |-> resourceId, locationId |-> locationId, quantity |-> quantity,
     action |-> action, inventoryItemId |-> inventoryItemId]

TaskSpec(type, status) == [type |-> type, status |-> status]

Payload(items, tasks) == [items |-> items, tasks |-> tasks]

\* (type, payload) bodies a client sends to POST /entities/:entityId/changesets:
\* a quantity update, a to-buy item, an item without resourceId followed by a
\* quantity update, a one-task weekly plan, and a type without an applier.
ProposalInputs ==
    { <<"INVENTORY_DIFF",
        Payload(<<Item(Some("R1"), Some("L1"), Some(5), "NONE", None)>>, <<>>)>>,
      <<"INVENTORY_DIFF",
        Payload(<<Item(Some("R1"), Some("L1"), Some(2), "TO_BUY", None)>>, <<>>)>>,
      <<"INVENTORY_DIFF",
        Payload(<<Item(None, Some("L1"), Some(5), "NONE", None),
                  Item(Some("R1"), Some("L1"), Some(5), "NONE", None)>>, <<>>)>>,
      <<"WEEKLY_MEAL_PLAN",
        Payload(<<>>, <<TaskSpec(Some("COOK_RECIPE_STEP"), None)>>)>>,
      <<"NOTE", Payload(<<>>, <<>>)>> }

QuantityInputs == {None, Some(2)}
LensTypeInputs == {"INVENTORY_LENS", "MEAL_PLAN_LENS", "PHOTO_LENS"}
SensorTypeInputs == {"MOBILE_CAMERA", "THERMOMETER"}
\* the actorId field of the createTrack body
TrackActorInputs == {"admin"}
\* quantity of the POST /entities/:entityId/inventory body
DirectQuantityInputs == {3}
\* quantity in the metadata of a BUY_RESOURCE task a client creates
BuyQuantityInputs == {2}
\* actorId and role of the assign / unassign body
AssigneeInputs == {"admin", "member"}
RoleInputs == {"RESPONSIBLE", "ACCOUNTABLE"}
\* type of a task a client creates
TaskTypeInputs == {"COOK_RECIPE_STEP"}
\* status of the POST /tasks/:taskId/status body
StatusInputs == {"PENDING", "DONE"}
CompletionInputs == {"DONE"}
\* the actor of the requests that set the scene up
OwnerInputs == {"admin"}
\* (type, payload) bodies about one InventoryItem: a quantity update and a delete
InventoryProposalInputs ==
    { <<"INVENTORY_DIFF",
        Payload(<<Item(Some("R1"), Some("L1"), Some(5), "NONE", None)>>, <<>>)>>,
      <<"INVENTORY_DIFF",
        Payload(<<Item(Some("R1"), Some("L1"), None, "DELETE", None)>>, <<>>)>> }

\* INVENTORY_DIFF bodies that take every branch of the applier: items without
\* resourceId or locationId among a quantity update and a to-buy item; the same
\* deletion twice; a to-buy and a plain item of quantity 0; two quantity updates
\* of one row
DiffProposalInputs ==
    { <<"INVENTORY_DIFF",
        Payload(<<Item(None, Some("L1"), Some(5), "NONE", None),
                  Item(Some("R1"), Some("L1"), Some(5), "NONE", None),
                  Item(Some("R2"), None, None, "DELETE", None),
                  Item(Some("R1"), Some("L1"), Some(2), "TO_BUY", None)>>, <<>>)>>,
      <<"INVENTORY_DIFF",
        Payload(<<Item(Some("R1"), Some("L1"), None, "DELETE", None),
                  Item(Some("R1"), Some("L1"), None, "DELETE", None)>>, <<>>)>>,
      <<"INVENTORY_DIFF",
        Payload(<<Item(Some("R1"), Some("L1"), Some(0), "TO_BUY", None),
                  Item(Some("R1"), Some("L1"), Some(0), "NONE", None)>>, <<>>)>>,
      <<"INVENTORY_DIFF",
        Payload(<<Item(Some("R1"), Some("L1"), Some(5), "NONE", None),
                  Item(Some("R1"), Some("L1"), Some(2), "NONE", None)>>, <<>>)>> }

\* INVENTORY_DIFF bodies whose last item names a Resource that does not exist,
\* after a to-buy item or after a quantity update, and a body without such an
\* item
FailingProposalInputs ==
    { <<"INVENTORY_DIFF",
        Payload(<<Item(Some("R1"), Some("L1"), Some(2), "TO_BUY", None)>>, <<>>)>>,
      <<"INVENTORY_DIFF",
        Payload(<<Item(Some("R1"), Some("L1"), Some(2), "TO_BUY", None),
                  Item(Some("R9"), Some("L1"), Some(5), "NONE", None)>>, <<>>)>>,
      <<"INVENTORY_DIFF",
        Payload(<<Item(Some("R1"), Some("L1"), Some(5), "NONE", None),
                  Item(Some("R9"), Some("L1"), Some(5), "NONE", None)>>, <<>>)>> }

\* an INVENTORY_DIFF body that deletes the InventoryItem of a triple and stores
\* a new one for the same triple
ReplacingProposalInputs ==
    { <<"INVENTORY_DIFF",
        Payload(<<Item(Some("R1"), Some("L1"), None, "DELETE", None),
                  Item(Some("R1"), Some("L1"), Some(5), "NONE", None)>>, <<>>)>> }

\* bodies of the ChangeSets whose review is followed through an audit outage:
\* a quantity update and a one-task weekly plan
AuditedProposalInputs ==
    { <<"INVENTORY_DIFF",
        Payload(<<Item(Some("R1"), Some("L1"), Some(5), "NONE", None)>>, <<>>)>>,
      <<"WEEKLY_MEAL_PLAN",
        Payload(<<>>, <<TaskSpec(Some("COOK_RECIPE_STEP"), None)>>)>> }

\* ------------------------------------------------------------------ tables
NewTask(entityId, type, status, locationId, metadata, tags) ==
    [entityId |-> entityId, type |-> type, status |-> status, locationId |-> locationId,
     metadata |-> metadata, tags |-> tags]

NewInventoryItem(entityId, resourceId, locationId, quantity) ==
    [entityId |-> entityId, resourceId |-> resourceId, locationId |-> locationId,
     quantity |-> quantity, live |-> TRUE]

DeletedRow ==
    [entityId |-> "none", resourceId |-> "none", locationId |-> "none",
     quantity |-> 0, live |-> FALSE]

\* ids of the live InventoryItem rows of a (resource, entity, location) triple
ItemsAt(inv, entityId, resourceId, locationId) ==
    {i \in 1..Len(inv) : /\ inv[i].live
                         /\ inv[i].entityId = entityId
                         /\ inv[i].resourceId = resourceId
                         /\ inv[i].locationId = locationId}

\* src/backend/src/server.ts ensureDefaultSensors
RECURSIVE ensureSensorTypes(_, _, _)
ensureSensorTypes(s, entityId, types) ==
    IF types = <<>> THEN s
    ELSE LET t == Head(types)
             existing == \E i \in 1..Len(s) : s[i].entityId = entityId /\ s[i].type = t
             s2 == IF existing THEN s ELSE Append(s, [entityId |-> entityId, type |-> t])
         IN  ensureSensorTypes(s2, entityId, Tail(types))

ensureDefaultSensors(s, entityId) ==
    ensureSensorTypes(s, entityId, <<"MOBILE_CAMERA", "WEB_UPLOAD">>)

\* src/backend/src/server.ts ensureDefaultLenses
RECURSIVE ensureLensTypes(_, _)
ensureLensTypes(l, types) ==
    IF types = <<>> THEN l
    ELSE LET existing == \E i \in 1..Len(l) : l[i] = Head(types)
         IN  ensureLensTypes(IF existing THEN l ELSE Append(l, Head(types)), Tail(types))

ensureDefaultLenses(l) == ensureLensTypes(l, defaultLensTypes)

\* src/backend/src/server.ts buildInventoryDiffPayload: the first Resource and
\* the first Location the store returns for the entity (no ordering is asked).
buildInventoryDiffPayload(resourceId, locationId) ==
    Payload(<<Item(Some(resourceId), Some(locationId), Some(1), "NONE", None)>>, <<>>)

\* src/backend/src/server.ts buildWeeklyPlanPayload
buildWeeklyPlanPayload ==
    Payload(<<>>, <<TaskSpec(Some("BUY_RESOURCE"), Some("PENDING")),
                    TaskSpec(Some("COOK_RECIPE_STEP"), Some("PENDING"))>>)

\* ------------------------------------------------- handlers run as one step
\* POST /entities/:entityId/changesets
CreateChangeSetVia(clerkEnabled, q, actorId, type, payload) ==
    /\ Free(q) /\ Room
    /\ attachAuth(clerkEnabled, actorId)
    /\ Len(changeSet) < MaxChangeSets
    /\ IF ~assertMembership(E1, actorId, AdminOnly)
       THEN /\ req' = [req EXCEPT ![q] = Respond(Input("createChangeSet", actorId, 0), 403)]
            /\ UNCHANGED handlerStore
       ELSE /\ changeSet' = Append(changeSet, NewChangeSet(E1, "TASK", 0, type, payload))
            /\ consoleErrors' = logErrors
            /\ auditLog' = logAudit(auditLog, E1, actorId, "CHANGESET",
                                    Len(changeSet) + 1, "CREATE_CHANGESET")
            /\ req' = [req EXCEPT ![q] =
                          Respond(Input("createChangeSet", actorId, Len(changeSet) + 1),
                                  AuditedResponse(200))]
            /\ UNCHANGED <<answer, goal, planning, entity, location, entityActor, taskActor, auditDown, question, task, inventoryItem, sensor, lens,
                           track, lensRun, clock>>

\* the route behind the development authentication
CreateChangeSet(q, actorId, type, payload) ==
    CreateChangeSetVia(FALSE, q, actorId, type, payload)

\* the route behind Clerk authentication
ClerkCreateChangeSet(q, actorId, type, payload) ==
    CreateChangeSetVia(TRUE, q, actorId, type, payload)

\* POST /entities/:entityId/inventory
CreateInventoryVia(clerkEnabled, q, actorId, resourceId, locationId, quantity) ==
    /\ Free(q)
    /\ attachAuth(clerkEnabled, actorId)
    /\ Len(inventoryItem) < MaxInventory
    /\ IF ~assertMembership(E1, actorId, AnyRole)
       THEN /\ req' = [req EXCEPT ![q] = Respond(Input("createInventory", actorId, 0), 403)]
            /\ UNCHANGED handlerStore
       ELSE IF ItemsAt(inventoryItem, E1, resourceId, locationId) # {}
       THEN \* unique (resourceId, entityId, locationId): the create throws
            /\ req' = [req EXCEPT ![q] = Respond(Input("createInventory", actorId, 0), 500)]
            /\ UNCHANGED handlerStore
       ELSE /\ inventoryItem' = Append(inventoryItem,
                                  NewInventoryItem(E1, resourceId, locationId, quantity))
            /\ req' = [req EXCEPT ![q] = Respond(Input("createInventory", actorId, 0), 200)]
            /\ UNCHANGED <<answer, goal, planning, entity, location, entityActor, taskActor, auditDown, changeSet, question, task, auditLog, consoleErrors, sensor, lens,
                           track, lensRun, clock>>

\* the route behind the development authentication
CreateInventory(q, actorId, resourceId, locationId, quantity) ==
    CreateInventoryVia(FALSE, q, actorId, resourceId, locationId, quantity)

\* the route behind Clerk authentication
ClerkCreateInventory(q, actorId, resourceId, locationId, quantity) ==
    CreateInventoryVia(TRUE, q, actorId, resourceId, locationId, quantity)

\* POST /inventory/:inventoryItemId/to-buy
RequestToBuy(q, actorId, inventoryItemId, quantity) ==
    /\ Free(q) /\ Room
    /\ Len(changeSet) < MaxChangeSets
    /\ IF ~(inventoryItemId \in 1..Len(inventoryItem) /\ inventoryItem[inventoryItemId].live)
       THEN /\ req' = [req EXCEPT ![q] = Respond(Input("toBuy", actorId, 0), 404)]
            /\ UNCHANGED store
       ELSE LET item == inventoryItem[inventoryItemId]
                qty == IF quantity = None THEN 1 ELSE quantity[1]
                id == Len(changeSet) + 1
            IN  IF ~assertMembership(item.entityId, actorId, AnyRole)
                THEN /\ req' = [req EXCEPT ![q] = Respond(Input("toBuy", actorId, 0), 403)]
                     /\ UNCHANGED store
                ELSE /\ changeSet' = Append(changeSet,
                            NewChangeSet(item.entityId, "INVENTORY", inventoryItemId,
                                "INVENTORY_DIFF",
                                Payload(<<Item(Some(item.resourceId), Some(item.locationId),
                                               Some(qty), "TO_BUY", Some(inventoryItemId))>>,
                                        <<>>)))
                     /\ question' = Append(question, NewQuestion(item.entityId, id))
                     /\ consoleErrors' = logErrors
                     /\ auditLog' = logAudit(auditLog, item.entityId, actorId, "CHANGESET",
                                             id, "REQUEST_TO_BUY")
                     /\ req' = [req EXCEPT ![q] = Respond(Input("toBuy", actorId, id),
                                                        AuditedResponse(200))]
                     /\ UNCHANGED <<actor, answer, goal, planning, entity, location, entityActor, taskActor, auditDown, task, inventoryItem, sensor, lens, track,
                                    lensRun, clock>>

\* a type choice that ignores the Lens
changeSetTypeAlwaysDiff(lensType) == "INVENTORY_DIFF"

\* processLensRun: the ChangeSet type for the Lens of the run
changeSetTypeFor(lensType) ==
    IF lensType = "MEAL_PLAN_LENS" THEN "WEEKLY_MEAL_PLAN" ELSE "INVENTORY_DIFF"

\* a processLensRun that does nothing for a run that is already COMPLETED
processLensRunOnce(tracks, runs, lensRunId, actorId) ==
    LET run == runs[lensRunId]
        entityId == tracks[run.trackId].entityId
        id == Len(changeSet) + 1
        payload == IF run.lensType = "MEAL_PLAN_LENS"
                   THEN buildWeeklyPlanPayload
                   ELSE buildInventoryDiffPayload("R1", "L1")
    IN  IF run.status = "COMPLETED"
        THEN /\ lensRun' = runs
             /\ UNCHANGED <<changeSet, question, auditLog, consoleErrors>>
        ELSE /\ changeSet' = Append(changeSet,
                     NewChangeSet(entityId, "TRACK", run.trackId,
                                  changeSetTypeFor(run.lensType), payload))
             /\ question' = Append(question, NewQuestion(entityId, id))
             /\ lensRun' = [runs EXCEPT ![lensRunId].status = "COMPLETED",
                                        ![lensRunId].rawOutput = Some(payload)]
             /\ consoleErrors' = logErrors
             /\ auditLog' = logAudit(auditLog, entityId, actorId, "CHANGESET", id,
                                     "CREATE_CHANGESET_FROM_LENS_RUN")

\* src/backend/src/server.ts processLensRun, on the LensRun table `runs`
processLensRun(tracks, runs, lensRunId, actorId) ==
    LET run == runs[lensRunId]
        entityId == tracks[run.trackId].entityId
        id == Len(changeSet) + 1
    IN  \E resourceId \in ResourceIds, locationId \in LocationIds :
          LET changeSetType == changeSetTypeFor(run.lensType)
              payload == IF run.lensType = "MEAL_PLAN_LENS"
                         THEN buildWeeklyPlanPayload
                         ELSE buildInventoryDiffPayload(resourceId, locationId)
          IN  /\ changeSet' = Append(changeSet,
                      NewChangeSet(entityId, "TRACK", run.trackId, changeSetType, payload))
              /\ question' = Append(question, NewQuestion(entityId, id))
              /\ lensRun' = [runs EXCEPT ![lensRunId].status = "COMPLETED",
                                         ![lensRunId].rawOutput = Some(payload)]
              /\ consoleErrors' = logErrors
              /\ auditLog' = logAudit(auditLog, entityId, actorId, "CHANGESET", id,
                                      "CREATE_CHANGESET_FROM_LENS_RUN")

\* POST /lens-runs/:lensRunId/process
ProcessLensRunRoute(q, actorId, lensRunId) ==
    /\ Free(q) /\ Room
    /\ Len(changeSet) < MaxLensChangeSets
    /\ IF lensRunId \notin 1..Len(lensRun)
       THEN /\ req' = [req EXCEPT ![q] = Respond(LensRunInput(actorId, 0, lensRunId), 404)]
            /\ UNCHANGED store
       ELSE IF ~assertMembership(track[lensRun[lensRunId].trackId].entityId, actorId, AnyRole)
       THEN /\ req' = [req EXCEPT ![q] = Respond(LensRunInput(actorId, 0, lensRunId), 403)]
            /\ UNCHANGED store
       ELSE /\ processLensRun(track, lensRun, lensRunId, actorId)
            /\ req' = [req EXCEPT ![q] =
                          Respond(LensRunInput(actorId, Len(changeSet) + 1, lensRunId),
                                  AuditedResponse(200))]
            /\ UNCHANGED <<actor, answer, goal, planning, entity, location, entityActor, taskActor, auditDown, task, inventoryItem, sensor, lens, track, clock>>

\* POST /entities/:entityId/tracks
CreateTrackVia(clerkEnabled, q, actorId, bodyActorId, sensorType, lensType) ==
    /\ Free(q)
    /\ attachAuth(clerkEnabled, actorId)
    /\ Len(track) < MaxTracks
    /\ IF ~assertMembership(E1, actorId, AnyRole)
       THEN /\ req' = [req EXCEPT ![q] = Respond(TrackInput(actorId, sensorType, lensType), 403)]
            /\ UNCHANGED handlerStore
       ELSE LET sensors == ensureDefaultSensors(sensor, E1)
                lenses == ensureDefaultLenses(lens)
                sensorIds == {i \in 1..Len(sensors) :
                                 sensors[i].entityId = E1 /\ sensors[i].type = sensorType}
                found == \E i \in 1..Len(lenses) : lenses[i] = lensType
            IN  /\ sensor' = sensors
                /\ lens' = lenses
                /\ IF sensorIds = {}
                   THEN /\ req' = [req EXCEPT ![q] =
                                     Respond(TrackInput(actorId, sensorType, lensType), 400)]
                        /\ UNCHANGED <<track, lensRun>>
                   ELSE /\ \E sensorId \in sensorIds :
                              track' = Append(track, [entityId |-> E1, actorId |-> bodyActorId,
                                                      sensorId |-> sensorId])
                        /\ lensRun' = IF found
                                      THEN Append(lensRun,
                                               [trackId |-> Len(track) + 1,
                                                lensType |-> lensType,
                                                status |-> "PENDING", rawOutput |-> None])
                                      ELSE lensRun
                        /\ req' = [req EXCEPT ![q] =
                                     Respond(TrackInput(actorId, sensorType, lensType), 200)]
                /\ UNCHANGED <<answer, goal, planning, entity, location, entityActor, taskActor, auditDown, changeSet, question, task, inventoryItem,
                               auditLog, consoleErrors, clock>>

\* the route behind the development authentication
CreateTrack(q, actorId, bodyActorId, sensorType, lensType) ==
    CreateTrackVia(FALSE, q, actorId, bodyActorId, sensorType, lensType)

\* the route behind Clerk authentication
ClerkCreateTrack(q, actorId, bodyActorId, sensorType, lensType) ==
    CreateTrackVia(TRUE, q, actorId, bodyActorId, sensorType, lensType)

\* POST /entities/:entityId/capture/:lensType
CaptureAndProcess(q, actorId, lensType) ==
    /\ Free(q) /\ Room
    /\ Len(changeSet) < MaxChangeSets
    /\ IF lensType \notin {"INVENTORY_LENS", "MEAL_PLAN_LENS"}
       THEN /\ req' = [req EXCEPT ![q] = Respond(Input("capture", actorId, 0), 400)]
            /\ UNCHANGED store
       ELSE LET sensors == ensureDefaultSensors(sensor, E1)
                lenses == ensureDefaultLenses(lens)
                sensorIds == {i \in 1..Len(sensors) :
                                 sensors[i].entityId = E1 /\ sensors[i].type = "MOBILE_CAMERA"}
                lensIds == {i \in 1..Len(lenses) : lenses[i] = lensType}
            IN  /\ sensor' = sensors
                /\ lens' = lenses
                \* both lookups succeed: the two ensure calls above provide the rows
                /\ lensIds # {}
                /\ IF actorId \notin actor
                   THEN \* the Track references its Actor: the create throws
                        /\ req' = [req EXCEPT ![q] = Respond(Input("capture", actorId, 0),
                                                             500)]
                        /\ UNCHANGED <<track, lensRun, changeSet, question, auditLog,
                                       consoleErrors>>
                   ELSE /\ \E sensorId \in sensorIds :
                              /\ track' = Append(track, [entityId |-> E1, actorId |-> actorId,
                                                         sensorId |-> sensorId])
                              /\ processLensRun(track',
                                    Append(lensRun, [trackId |-> Len(track) + 1,
                                                     lensType |-> lensType,
                                                     status |-> "PENDING", rawOutput |-> None]),
                                    Len(lensRun) + 1, actorId)
                        /\ req' = [req EXCEPT ![q] =
                                      Respond(Input("capture", actorId, Len(changeSet) + 1),
                                              AuditedResponse(200))]
                /\ UNCHANGED <<actor, answer, goal, planning, entity, location, entityActor, taskActor, auditDown, task, inventoryItem, clock>>

\* ------------------------------------------ apply, one awaited call per step
\* status tests of apply that let a PENDING, an APPLIED, or any ChangeSet through
MayApplyNotApplied(status) == status # "APPLIED"
MayApplyNotPending(status) == status # "PENDING"
MayApplyAlways(status) == TRUE

\* the status test of the apply handler
MayApply(status) == status = "APPROVED"

\* a status test of approve that lets an APPLIED ChangeSet through
MayApproveAlways(status) == TRUE

\* a status test of approve that waits for an Answer
MayApproveAnswered(status) == status # "APPLIED" /\ answer # <<>>

\* a status test of approve that accepts PENDING ChangeSets only
MayApprovePendingOnly(status) == status = "PENDING"

\* the status test of the approve handler
MayApprove(status) == status # "APPLIED"

\* applyInventoryDiff: `if (!item.resourceId || !item.locationId) continue`
Skipped(item) == item.resourceId = None \/ item.locationId = None

\* the rows the applier of a ChangeSet iterates over
Work(cs) ==
    IF cs.type = "INVENTORY_DIFF" THEN cs.payload.items
    ELSE IF cs.type = "WEEKLY_MEAL_PLAN" THEN cs.payload.tasks
    ELSE <<>>

\* a loop that ends at the first item it would skip
NextRowBreak(cs, i) ==
    IF i > Len(Work(cs)) THEN i
    ELSE IF cs.type = "INVENTORY_DIFF" /\ Skipped(Work(cs)[i]) THEN Len(Work(cs)) + 1
    ELSE i

\* index of the next row, from i on, for which the applier awaits the store
RECURSIVE NextRow(_, _)
NextRow(cs, i) ==
    IF i > Len(Work(cs)) THEN i
    ELSE IF cs.type = "INVENTORY_DIFF" /\ Skipped(Work(cs)[i]) THEN NextRow(cs, i + 1)
    ELSE i

\* the handler runs on, without awaiting, up to its next store call
Advance(r, i) ==
    LET j == NextRow(r.snap, i)
    IN  [r EXCEPT !.idx = j,
                  !.pc = IF j <= Len(Work(r.snap)) THEN "applier" ELSE "bookkeeping"]

\* apply: prisma.changeSet.findUnique
ApplyFind(q, actorId, id) ==
    /\ Free(q) /\ Room
    /\ IF id \notin 1..Len(changeSet)
       THEN req' = [req EXCEPT ![q] = Respond(Input("apply", actorId, id), 404)]
       ELSE req' = [req EXCEPT ![q] = [Input("apply", actorId, id) EXCEPT
                                          !.pc = "authorize", !.snap = changeSet[id]]]
    /\ UNCHANGED store

\* apply: assertMembership(..., ["ADMIN"]), then the status test
ApplyAuthorize(q) ==
    LET r == req[q]
    IN  /\ r.op = "apply" /\ r.pc = "authorize"
        /\ req' = [req EXCEPT ![q] =
                      IF ~assertMembership(r.snap.entityId, r.actorId, AdminOnly)
                      THEN Respond(r, 403)
                      ELSE IF ~MayApply(r.snap.status)
                      THEN Respond(r, 409)
                      ELSE Advance(r, 1)]
        /\ UNCHANGED store

\* a to-buy task that drops the item's quantity
BuyResourceTaskUnitQuantity(entityId, item) ==
    NewTask(entityId, "BUY_RESOURCE", "PENDING", item.locationId,
            Some([inventoryItemId |-> item.inventoryItemId,
                  resourceId |-> item.resourceId[1],
                  locationId |-> item.locationId[1],
                  quantity |-> 1]),
            <<"to-buy">>)

\* the Task row applyInventoryDiff creates for a TO_BUY item
BuyResourceTask(entityId, item) ==
    NewTask(entityId, "BUY_RESOURCE", "PENDING", item.locationId,
            Some([inventoryItemId |-> item.inventoryItemId,
                  resourceId |-> item.resourceId[1],
                  locationId |-> item.locationId[1],
                  quantity |-> IF item.quantity = None THEN 1 ELSE item.quantity[1]]),
            <<"to-buy">>)

\* a deleteMany that empties the rows instead of removing them
deleteManyZeroes(inv, entityId, resourceId, locationId) ==
    [i \in 1..Len(inv) |->
        IF i \in ItemsAt(inv, entityId, resourceId, locationId)
        THEN [inv[i] EXCEPT !.quantity = 0] ELSE inv[i]]

\* prisma.inventoryItem.deleteMany on a (entity, resource, location) triple
deleteMany(inv, entityId, resourceId, locationId) ==
    [i \in 1..Len(inv) |->
        IF i \in ItemsAt(inv, entityId, resourceId, locationId) THEN DeletedRow ELSE inv[i]]

\* an upsert that never finds the existing row
upsertAlwaysCreate(inv, entityId, resourceId, locationId, quantity) ==
    Append(inv, NewInventoryItem(entityId, resourceId, locationId,
                                 IF quantity = None THEN 0 ELSE quantity[1]))

\* an upsert that leaves an existing row as it is
upsertKeepExisting(inv, entityId, resourceId, locationId, quantity) ==
    IF ItemsAt(inv, entityId, resourceId, locationId) # {} THEN inv
    ELSE Append(inv, NewInventoryItem(entityId, resourceId, locationId,
                                      IF quantity = None THEN 0 ELSE quantity[1]))

\* an upsert that adds to the stored quantity instead of replacing it
upsertIncrement(inv, entityId, resourceId, locationId, quantity) ==
    LET ids == ItemsAt(inv, entityId, resourceId, locationId)
    IN  IF ids # {}
        THEN [i \in 1..Len(inv) |->
                 IF i \in ids /\ quantity # None
                 THEN [inv[i] EXCEPT !.quantity = @ + quantity[1]] ELSE inv[i]]
        ELSE Append(inv, NewInventoryItem(entityId, resourceId, locationId,
                                          IF quantity = None THEN 0 ELSE quantity[1]))

\* prisma.inventoryItem.upsert on the unique (resource, entity, location) key
upsertQuantity(inv, entityId, resourceId, locationId, quantity) ==
    LET ids == ItemsAt(inv, entityId, resourceId, locationId)
    IN  IF ids # {}
        THEN [i \in 1..Len(inv) |->
                 IF i \in ids /\ quantity # None
                 THEN [inv[i] EXCEPT !.quantity = quantity[1]] ELSE inv[i]]
        ELSE Append(inv, NewInventoryItem(entityId, resourceId, locationId,
                                          IF quantity = None THEN 0 ELSE quantity[1]))

\* applyInventoryDiff: the store call for one payload item. An InventoryItem
\* references its Resource and its Location: the create of the upsert throws
\* when one of them does not exist, and the catch of the apply handler answers
\* 500; what the request wrote before stays.
applyInventoryDiff(q) ==
    LET r == req[q]
        item == Work(r.snap)[r.idx]
        entityId == r.snap.entityId
    IN  /\ r.op = "apply" /\ r.pc = "applier" /\ r.snap.type = "INVENTORY_DIFF"
        /\ IF item.action = "TO_BUY"
           THEN /\ task' = Append(task, BuyResourceTask(entityId, item))
                /\ req' = [req EXCEPT ![q] =
                              Advance([r EXCEPT !.result = Append(@, [action |-> "to-buy",
                                                                     id |-> Len(task) + 1])],
                                      r.idx + 1)]
                /\ UNCHANGED inventoryItem
           ELSE IF item.action = "DELETE" \/ (item.quantity # None /\ item.quantity[1] <= 0)
           THEN /\ inventoryItem' = deleteMany(inventoryItem, entityId,
                                               item.resourceId[1], item.locationId[1])
                /\ req' = [req EXCEPT ![q] =
                              Advance([r EXCEPT !.result = Append(@, [action |-> "deleted",
                                                                     id |-> 0])],
                                      r.idx + 1)]
                /\ UNCHANGED task
           ELSE IF item.resourceId[1] \notin ResourceIds \/ item.locationId[1] \notin LocationIds
           THEN /\ req' = [req EXCEPT ![q] = Respond(r, 500)]
                /\ UNCHANGED <<task, inventoryItem>>
           ELSE /\ inventoryItem' = upsertQuantity(inventoryItem, entityId,
                                        item.resourceId[1], item.locationId[1], item.quantity)
                /\ \E id \in ItemsAt(inventoryItem', entityId,
                                     item.resourceId[1], item.locationId[1]) :
                      req' = [req EXCEPT ![q] =
                                 Advance([r EXCEPT !.result = Append(@, [action |-> "upserted",
                                                                        id |-> id])],
                                         r.idx + 1)]
                /\ UNCHANGED task
        /\ UNCHANGED <<actor, answer, goal, planning, entity, location, entityActor, taskActor, auditDown, changeSet, question, auditLog, consoleErrors, sensor, lens, track,
                       lensRun, clock>>

\* a planned task that ignores the type of its spec
WeeklyPlanTaskDefaultType(entityId, t) ==
    NewTask(entityId, "BUY_RESOURCE",
            IF t.status = None THEN "PENDING" ELSE t.status[1], None, None, <<>>)

\* the Task row applyWeeklyPlan creates for one task spec
WeeklyPlanTask(entityId, t) ==
    NewTask(entityId,
            IF t.type = None THEN "BUY_RESOURCE" ELSE t.type[1],
            IF t.status = None THEN "PENDING" ELSE t.status[1],
            None, None, <<>>)

\* applyWeeklyPlan: the store call for one task spec
applyWeeklyPlan(q) ==
    LET r == req[q]
        t == Work(r.snap)[r.idx]
    IN  /\ r.op = "apply" /\ r.pc = "applier" /\ r.snap.type = "WEEKLY_MEAL_PLAN"
        /\ task' = Append(task, WeeklyPlanTask(r.snap.entityId, t))
        /\ req' = [req EXCEPT ![q] =
                      Advance([r EXCEPT !.result = Append(@, [action |-> "task",
                                                             id |-> Len(task) + 1])],
                              r.idx + 1)]
        /\ UNCHANGED <<actor, answer, goal, planning, entity, location, entityActor, taskActor, auditDown, changeSet, question, inventoryItem, auditLog, consoleErrors, sensor,
                       lens, track, lensRun, clock>>

\* a bookkeeping step that answers 400 to a ChangeSet type without an applier
ApplyBookkeepingKnownTypes(q) ==
    LET r == req[q]
    IN  /\ r.op = "apply" /\ r.pc = "bookkeeping"
        /\ IF r.snap.type \in {"INVENTORY_DIFF", "WEEKLY_MEAL_PLAN"}
           THEN /\ task' = Append(task, NewTask(r.snap.entityId, "APPLY_CHANGESET", "DONE",
                                                None, None, <<>>))
                /\ changeSet' = [changeSet EXCEPT ![r.changeSetId].taskId = Len(task) + 1]
                /\ req' = [req EXCEPT ![q].pc = "update"]
                /\ UNCHANGED <<actor, answer, goal, planning, entity, location, entityActor,
                               taskActor, auditDown, question, inventoryItem, auditLog,
                               consoleErrors, sensor, lens, track, lensRun, clock>>
           ELSE /\ req' = [req EXCEPT ![q] = Respond(r, 400)]
                /\ UNCHANGED store

\* apply: prisma.task.create of the APPLY_CHANGESET task; `changeSets: connect`
\* points the ChangeSet's taskId at the new task
ApplyBookkeeping(q) ==
    LET r == req[q]
    IN  /\ r.op = "apply" /\ r.pc = "bookkeeping"
        /\ task' = Append(task, NewTask(r.snap.entityId, "APPLY_CHANGESET", "DONE",
                                        None, None, <<>>))
        /\ changeSet' = [changeSet EXCEPT ![r.changeSetId].taskId = Len(task) + 1]
        /\ req' = [req EXCEPT ![q].pc = "update"]
        /\ UNCHANGED <<actor, answer, goal, planning, entity, location, entityActor, taskActor, auditDown, question, inventoryItem, auditLog, consoleErrors, sensor,
                       lens, track, lensRun, clock>>

\* apply: prisma.changeSet.update to APPLIED
ApplyUpdate(q) ==
    LET r == req[q]
    IN  /\ r.op = "apply" /\ r.pc = "update"
        /\ clock' = clock + 1
        /\ changeSet' = [changeSet EXCEPT ![r.changeSetId].status = "APPLIED",
                                          ![r.changeSetId].appliedAt = clock']
        /\ req' = [req EXCEPT ![q].pc = "audit"]
        /\ UNCHANGED <<actor, answer, goal, planning, entity, location, entityActor, taskActor, auditDown, question, task, inventoryItem, auditLog, consoleErrors, sensor, lens,
                       track, lensRun>>

\* apply: logAudit and the response
ApplyAudit(q) ==
    LET r == req[q]
    IN  /\ r.op = "apply" /\ r.pc = "audit"
        /\ consoleErrors' = logErrors
        /\ auditLog' = logAudit(auditLog, r.snap.entityId, r.actorId, "CHANGESET",
                                r.changeSetId, "APPLY_CHANGESET")
        /\ req' = [req EXCEPT ![q] = Respond(r, AuditedResponse(200))]
        /\ UNCHANGED <<actor, answer, goal, planning, entity, location, entityActor, taskActor, auditDown, changeSet, question, task, inventoryItem, sensor, lens,
                       track, lensRun, clock>>

\* ---------------------------------------- approve, one awaited call per step
\* approve: prisma.changeSet.findUnique
ApproveFind(q, actorId, id) ==
    /\ Free(q) /\ Room
    /\ IF id \notin 1..Len(changeSet)
       THEN req' = [req EXCEPT ![q] = Respond(Input("approve", actorId, id), 404)]
       ELSE req' = [req EXCEPT ![q] = [Input("approve", actorId, id) EXCEPT
                                          !.pc = "authorize", !.snap = changeSet[id]]]
    /\ UNCHANGED store

\* approve: assertMembership(..., ["ADMIN"]), then the status test
ApproveAuthorize(q) ==
    LET r == req[q]
    IN  /\ r.op = "approve" /\ r.pc = "authorize"
        /\ req' = [req EXCEPT ![q] =
                      IF ~assertMembership(r.snap.entityId, r.actorId, AdminOnly)
                      THEN Respond(r, 403)
                      ELSE IF ~MayApprove(r.snap.status)
                      THEN Respond(r, 409)
                      ELSE [r EXCEPT !.pc = "update"]]
        /\ UNCHANGED store

\* approve: prisma.changeSet.update to APPROVED
ApproveUpdate(q) ==
    LET r == req[q]
    IN  /\ r.op = "approve" /\ r.pc = "update"
        /\ clock' = clock + 1
        /\ changeSet' = [changeSet EXCEPT ![r.changeSetId].status = "APPROVED",
                                          ![r.changeSetId].approvedAt = clock']
        /\ req' = [req EXCEPT ![q].pc = "audit"]
        /\ UNCHANGED <<actor, answer, goal, planning, entity, location, entityActor, taskActor, auditDown, question, task, inventoryItem, auditLog, consoleErrors, sensor, lens,
                       track, lensRun>>

\* approve: logAudit and the response
ApproveAudit(q) ==
    LET r == req[q]
    IN  /\ r.op = "approve" /\ r.pc = "audit"
        /\ consoleErrors' = logErrors
        /\ auditLog' = logAudit(auditLog, r.snap.entityId, r.actorId, "CHANGESET",
                                r.changeSetId, "APPROVE_CHANGESET")
        /\ req' = [req EXCEPT ![q] = Respond(r, AuditedResponse(200))]
        /\ UNCHANGED <<actor, answer, goal, planning, entity, location, entityActor, taskActor, auditDown, changeSet, question, task, inventoryItem, sensor, lens,
                       track, lensRun, clock>>

\* ------------------------------------------------------------------- tasks
\* a taskActor write that always creates
createTaskActor(rows, row) == Append(rows, row)

\* prisma.taskActor.upsert on the unique (taskId, actorId, role) key, update: {}
upsertTaskActor(rows, row) ==
    IF \E i \in 1..Len(rows) : rows[i] = row THEN rows ELSE Append(rows, row)

\* prisma.taskActor.deleteMany of a (taskId, actorId, role)
deleteTaskActors(rows, row) == SelectSeq(rows, LAMBDA x : x # row)

\* metadata of a BUY_RESOURCE task about InventoryItem `inventoryItemId`
BuyMetadata(inventoryItemId, resourceId, locationId, quantity) ==
    Some([inventoryItemId |-> Some(inventoryItemId), resourceId |-> resourceId,
          locationId |-> locationId, quantity |-> quantity])

\* POST /entities/:entityId/tasks
CreateTask(q, actorId, type, status, metadata, assignToActor) ==
    /\ Free(q) /\ TaskRoom
    /\ Len(task) < MaxTasks
    /\ IF ~assertMembership(E1, actorId, AnyRole)
       THEN /\ req' = [req EXCEPT ![q] = Respond(TaskInput("createTask", actorId, 0, "none"),
                                                 403)]
            /\ UNCHANGED store
       ELSE LET id == Len(task) + 1
                row == [taskId |-> id, actorId |-> actorId, role |-> "RESPONSIBLE"]
            IN  /\ task' = Append(task, NewTask(E1, type,
                                                IF status = None THEN "PENDING" ELSE status[1],
                                                None, metadata, <<>>))
                /\ taskActor' = IF assignToActor
                                THEN upsertTaskActor(taskActor, row) ELSE taskActor
                /\ consoleErrors' = logErrors
                /\ auditLog' = logAudit(auditLog, E1, actorId, "TASK", id, "CREATE_TASK")
                /\ req' = [req EXCEPT ![q] =
                              Respond(TaskInput("createTask", actorId, id, "none"),
                                      AuditedResponse(200))]
                /\ UNCHANGED <<actor, answer, goal, planning, entity, location, entityActor, auditDown, changeSet, question, inventoryItem,
                               sensor, lens, track, lensRun, clock>>

\* POST /tasks/:taskId/assign
Assign(q, actorId, taskId, assignee, role) ==
    LET r == AssignInput("assign", actorId, taskId, assignee, role)
    IN  /\ Free(q) /\ TaskRoom
        /\ IF taskId \notin 1..Len(task)
           THEN /\ req' = [req EXCEPT ![q] = Respond(r, 404)]
                /\ UNCHANGED store
           ELSE IF ~assertMembership(task[taskId].entityId, actorId, AnyRole)
           THEN /\ req' = [req EXCEPT ![q] = Respond(r, 403)]
                /\ UNCHANGED store
           ELSE /\ taskActor' = upsertTaskActor(taskActor,
                                    [taskId |-> taskId, actorId |-> assignee, role |-> role])
                /\ consoleErrors' = logErrors
                /\ auditLog' = logAudit(auditLog, task[taskId].entityId, actorId, "TASK",
                                        taskId, "ASSIGN_TASK")
                /\ req' = [req EXCEPT ![q] = Respond(r, AuditedResponse(200))]
                /\ UNCHANGED <<actor, answer, goal, planning, entity, location, entityActor, auditDown, changeSet, question, task,
                               inventoryItem, sensor, lens, track, lensRun, clock>>

\* POST /tasks/:taskId/unassign
Unassign(q, actorId, taskId, assignee, role) ==
    LET r == AssignInput("unassign", actorId, taskId, assignee, role)
    IN  /\ Free(q) /\ TaskRoom
        /\ IF taskId \notin 1..Len(task)
           THEN /\ req' = [req EXCEPT ![q] = Respond(r, 404)]
                /\ UNCHANGED store
           ELSE IF ~assertMembership(task[taskId].entityId, actorId, AnyRole)
           THEN /\ req' = [req EXCEPT ![q] = Respond(r, 403)]
                /\ UNCHANGED store
           ELSE /\ taskActor' = deleteTaskActors(taskActor,
                                    [taskId |-> taskId, actorId |-> assignee, role |-> role])
                /\ consoleErrors' = logErrors
                /\ auditLog' = logAudit(auditLog, task[taskId].entityId, actorId, "TASK",
                                        taskId, "UNASSIGN_TASK")
                /\ req' = [req EXCEPT ![q] = Respond(r, AuditedResponse(200))]
                /\ UNCHANGED <<actor, answer, goal, planning, entity, location, entityActor, auditDown, changeSet, question, task,
                               inventoryItem, sensor, lens, track, lensRun, clock>>

\* the tags of the POST /tasks/:taskId/tags body
TagInputs == {<<"urgent">>}

\* POST /tasks/:taskId/tags: prisma.task.update, which throws when the task
\* does not exist, then logAudit
UpdateTags(q, actorId, taskId, tags) ==
    LET r == TaskInput("tags", actorId, taskId, "none")
    IN  /\ Free(q) /\ TaskRoom
        /\ IF taskId \notin 1..Len(task)
           THEN /\ req' = [req EXCEPT ![q] = Respond(r, 500)]
                /\ UNCHANGED store
           ELSE /\ task' = [task EXCEPT ![taskId].tags = tags]
                /\ consoleErrors' = logErrors
                /\ auditLog' = logAudit(auditLog, task[taskId].entityId, actorId, "TASK",
                                        taskId, "UPDATE_TASK_TAGS")
                /\ req' = [req EXCEPT ![q] = Respond(r, AuditedResponse(200))]
                /\ UNCHANGED <<actor, answer, goal, planning, entity, location, entityActor,
                               taskActor, auditDown, changeSet, question, inventoryItem,
                               sensor, lens, track, lensRun, clock>>

\* a completion test that forgets the task type
IncrementsAnyType(existing, status) ==
    /\ existing.status # "DONE"
    /\ status = "DONE"
    /\ existing.metadata # None
    /\ existing.metadata[1].inventoryItemId # None

\* a completion test that forgets the previous status
IncrementsOnEveryDone(existing, status) ==
    /\ existing.type = "BUY_RESOURCE"
    /\ status = "DONE"
    /\ existing.metadata # None
    /\ existing.metadata[1].inventoryItemId # None

\* setStatus: the test guarding the inventory increment, on the task row read
\* before the update
Increments(existing, status) ==
    /\ existing.type = "BUY_RESOURCE"
    /\ existing.status # "DONE"
    /\ status = "DONE"
    /\ existing.metadata # None
    /\ existing.metadata[1].inventoryItemId # None

\* setStatus: prisma.task.findUnique
SetStatusFind(q, actorId, taskId, status) ==
    /\ Free(q) /\ TaskRoom
    /\ IF taskId \notin 1..Len(task)
       THEN req' = [req EXCEPT ![q] = Respond(TaskInput("setStatus", actorId, taskId, status),
                                             404)]
       ELSE req' = [req EXCEPT ![q] = [TaskInput("setStatus", actorId, taskId, status) EXCEPT
                                          !.pc = "update", !.existing = task[taskId]]]
    /\ UNCHANGED store

\* setStatus: prisma.task.update
SetStatusUpdate(q) ==
    LET r == req[q]
    IN  /\ r.op = "setStatus" /\ r.pc = "update"
        /\ task' = [task EXCEPT ![r.taskId].status = r.status]
        /\ req' = [req EXCEPT ![q].pc = IF Increments(r.existing, r.status)
                                        THEN "upsert" ELSE "audit"]
        /\ UNCHANGED <<actor, answer, goal, planning, entity, location, entityActor, taskActor, auditDown, changeSet, question, inventoryItem,
                       auditLog, consoleErrors, sensor, lens, track, lensRun, clock>>

\* an upsert step that stores the quantity of the metadata instead of adding it
SetStatusUpsertReplaces(q) ==
    LET r == req[q]
        meta == r.existing.metadata[1]
        id == meta.inventoryItemId[1]
    IN  /\ r.op = "setStatus" /\ r.pc = "upsert"
        /\ id \in 1..Len(inventoryItem)
        /\ inventoryItem' = [inventoryItem EXCEPT ![id].quantity = meta.quantity]
        /\ req' = [req EXCEPT ![q].pc = "audit"]
        /\ UNCHANGED <<actor, answer, goal, planning, entity, location, entityActor,
                       taskActor, auditDown, changeSet, question, task, auditLog,
                       consoleErrors, sensor, lens, track, lensRun, clock>>

\* setStatus: prisma.inventoryItem.upsert where { id: meta.inventoryItemId }.
\* The create of a row that is gone takes the id of the metadata; it throws on
\* the unique (resourceId, entityId, locationId) key.
SetStatusUpsert(q) ==
    LET r == req[q]
        meta == r.existing.metadata[1]
        id == meta.inventoryItemId[1]
        present == id \in 1..Len(inventoryItem) /\ inventoryItem[id].live
        row == NewInventoryItem(r.existing.entityId, meta.resourceId, meta.locationId,
                                meta.quantity)
        taken == ItemsAt(inventoryItem, r.existing.entityId, meta.resourceId,
                         meta.locationId) # {}
    IN  /\ r.op = "setStatus" /\ r.pc = "upsert"
        /\ IF present
           THEN /\ inventoryItem' = [inventoryItem EXCEPT ![id].quantity = @ + meta.quantity]
                /\ req' = [req EXCEPT ![q].pc = "audit"]
           ELSE IF taken
           THEN /\ inventoryItem' = inventoryItem
                /\ req' = [req EXCEPT ![q] = Respond(r, 500)]
           ELSE /\ inventoryItem' = IF id \in 1..Len(inventoryItem)
                                    THEN [inventoryItem EXCEPT ![id] = row]
                                    ELSE Append(inventoryItem, row)
                /\ req' = [req EXCEPT ![q].pc = "audit"]
        /\ UNCHANGED <<actor, answer, goal, planning, entity, location, entityActor, taskActor, auditDown, changeSet, question, task,
                       auditLog, consoleErrors, sensor, lens, track, lensRun, clock>>

\* setStatus: logAudit and the response
SetStatusAudit(q) ==
    LET r == req[q]
    IN  /\ r.op = "setStatus" /\ r.pc = "audit"
        /\ consoleErrors' = logErrors
        /\ auditLog' = logAudit(auditLog, r.existing.entityId, r.actorId, "TASK",
                                r.taskId, "UPDATE_TASK_STATUS")
        /\ req' = [req EXCEPT ![q] = Respond(r, AuditedResponse(200))]
        /\ UNCHANGED <<actor, answer, goal, planning, entity, location, entityActor, taskActor, auditDown, changeSet, question, task,
                       inventoryItem, sensor, lens, track, lensRun, clock>>

\* ------------------------------------------------------------------- goals
\* the start of the plan's week: periodStart of the body, or weekRange().start
PeriodInputs == {"W1", "W2"}

\* the Goal rows prisma.goal.findFirst may return
GoalsOf(entityId, periodStart) ==
    {i \in 1..Len(goal) : /\ goal[i].entityId = entityId
                          /\ goal[i].type = "WEEKLY_MEAL_PLAN"
                          /\ goal[i].periodStart = periodStart}

\* weekly-plan goal requests in flight
GoalInFlight ==
    Cardinality({q \in Requests : req[q].op = "weeklyPlanGoal" /\ ~Free(q)})

\* POST /entities/:entityId/goals/weekly-plan: assertMembership(..., ["ADMIN"])
\* and prisma.goal.findFirst
GoalFind(q, actorId, periodStart) ==
    /\ Free(q)
    /\ Len(planning) + GoalInFlight < MaxPlannings
    /\ IF ~assertMembership(E1, actorId, AdminOnly)
       THEN req' = [req EXCEPT ![q] = Respond(GoalInput(actorId, periodStart), 403)]
       ELSE IF GoalsOf(E1, periodStart) = {}
       THEN req' = [req EXCEPT ![q] = [GoalInput(actorId, periodStart) EXCEPT
                                          !.pc = "goalCreate"]]
       ELSE \E id \in GoalsOf(E1, periodStart) :
               req' = [req EXCEPT ![q] = [GoalInput(actorId, periodStart) EXCEPT
                                             !.pc = "goalTask", !.goalId = id]]
    /\ UNCHANGED store

\* weekly-plan goal: prisma.goal.create when findFirst returned nothing
GoalCreate(q) ==
    LET r == req[q]
    IN  /\ r.op = "weeklyPlanGoal" /\ r.pc = "goalCreate"
        /\ goal' = Append(goal, [entityId |-> E1, type |-> "WEEKLY_MEAL_PLAN",
                                 state |-> "PENDING", periodStart |-> r.periodStart])
        /\ req' = [req EXCEPT ![q].pc = "goalTask", ![q].goalId = Len(goal) + 1]
        /\ UNCHANGED <<actor, answer, planning, entity, location, entityActor, taskActor, auditDown, changeSet,
                       question, task, inventoryItem, auditLog, consoleErrors, sensor, lens,
                       track, lensRun, clock>>

\* weekly-plan goal: prisma.task.create of the PLAN_WEEKLY_MEALS task
GoalTask(q) ==
    LET r == req[q]
    IN  /\ r.op = "weeklyPlanGoal" /\ r.pc = "goalTask"
        /\ task' = Append(task, NewTask(E1, "PLAN_WEEKLY_MEALS", "PENDING", None, None, <<>>))
        /\ req' = [req EXCEPT ![q].pc = "goalTaskActor", ![q].taskId = Len(task) + 1]
        /\ UNCHANGED <<actor, answer, goal, planning, entity, location, entityActor, taskActor, auditDown,
                       changeSet, question, inventoryItem, auditLog, consoleErrors, sensor,
                       lens, track, lensRun, clock>>

\* weekly-plan goal: prisma.taskActor.create, ACCOUNTABLE
GoalTaskActor(q) ==
    LET r == req[q]
    IN  /\ r.op = "weeklyPlanGoal" /\ r.pc = "goalTaskActor"
        /\ taskActor' = Append(taskActor, [taskId |-> r.taskId, actorId |-> r.actorId,
                                           role |-> "ACCOUNTABLE"])
        /\ req' = [req EXCEPT ![q].pc = "goalPlanning"]
        /\ UNCHANGED <<actor, answer, goal, planning, entity, location, entityActor, auditDown, changeSet,
                       question, task, inventoryItem, auditLog, consoleErrors, sensor, lens,
                       track, lensRun, clock>>

\* weekly-plan goal: prisma.planning.create and the response
GoalPlanning(q) ==
    LET r == req[q]
    IN  /\ r.op = "weeklyPlanGoal" /\ r.pc = "goalPlanning"
        /\ planning' = Append(planning, [entityId |-> E1, goalId |-> r.goalId,
                                         taskId |-> r.taskId])
        /\ req' = [req EXCEPT ![q] = Respond(r, 200)]
        /\ UNCHANGED <<actor, answer, goal, entity, location, entityActor, taskActor, auditDown, changeSet,
                       question, task, inventoryItem, auditLog, consoleErrors, sensor, lens,
                       track, lensRun, clock>>

\* ----------------------------------------------------------------- answers
\* the value of the POST /questions/:questionId/answer body
ValueInputs == {"yes", "no"}

\* POST /questions/:questionId/answer. The Answer row references its Question
\* and its Task; the create throws when the Task does not exist.
AnswerQuestion(q, actorId, questionId, taskId, value) ==
    LET r == TaskInput("answer", actorId, taskId, "none")
    IN  /\ Free(q)
        /\ Len(answer) < MaxAnswers
        /\ IF questionId \notin 1..Len(question)
           THEN /\ req' = [req EXCEPT ![q] = Respond(r, 404)]
                /\ UNCHANGED store
           ELSE IF ~assertMembership(question[questionId].entityId, actorId, AnyRole)
           THEN /\ req' = [req EXCEPT ![q] = Respond(r, 403)]
                /\ UNCHANGED store
           ELSE IF taskId \notin 1..Len(task)
           THEN /\ req' = [req EXCEPT ![q] = Respond(r, 500)]
                /\ UNCHANGED store
           ELSE /\ answer' = Append(answer, [questionId |-> questionId, taskId |-> taskId,
                                             value |-> value])
                /\ consoleErrors' = logErrors
                /\ auditLog' = logAudit(auditLog, question[questionId].entityId, actorId,
                                        "QUESTION", questionId, "ANSWER_QUESTION")
                /\ req' = [req EXCEPT ![q] = Respond(r, AuditedResponse(200))]
                /\ UNCHANGED <<actor, goal, planning, entity, location, entityActor, taskActor,
                               auditDown, changeSet, question, task, inventoryItem, sensor,
                               lens, track, lensRun, clock>>

\* --------------------------------------------------------------- locations
\* the households the store can hold
EntityIds == {E1, "E2"}

\* the name of the POST /entities/:entityId/locations body
LocationNameInputs == {"Shelf"}

\* the Location rows the location route has created
CreatedLocations == {i \in 1..Len(location) : location[i].name \in LocationNameInputs}

\* POST /entities: the Entity row, its base locations, its default sensors and
\* the ADMIN membership of adminActorId, or of the caller when the body has
\* none. The membership references its Actor; the create throws when that
\* Actor does not exist, after the rows before it are written.
CreateEntity(q, actorId, adminActorId) ==
    LET r == Input("createEntity", actorId, 0)
        id == CHOOSE e \in EntityIds : e \notin entity
        admin == IF adminActorId = None THEN actorId ELSE adminActorId[1]
    IN  /\ Free(q)
        /\ EntityIds \ entity # {}
        /\ entity' = entity \cup {id}
        /\ location' = ensureBaseLocations(location, id)
        /\ sensor' = ensureDefaultSensors(sensor, id)
        /\ IF admin \in actor
           THEN /\ entityActor' = entityActor \cup
                                      {[entityId |-> id, actorId |-> admin, role |-> "ADMIN"]}
                /\ req' = [req EXCEPT ![q] = Respond(r, 200)]
           ELSE /\ req' = [req EXCEPT ![q] = Respond(r, 500)]
                /\ UNCHANGED entityActor
        /\ UNCHANGED <<actor, answer, goal, planning, taskActor, auditDown, changeSet, question,
                       task, inventoryItem, auditLog, consoleErrors, lens, track, lensRun,
                       clock>>

\* POST /entities/:entityId/locations: ADMIN only. parentId 0 is a body without
\* parentId. The row references its Entity and its parent Location; the create
\* throws when the parent does not exist.
CreateLocation(q, actorId, entityId, name, parentId) ==
    LET r == Input("createLocation", actorId, 0)
    IN  /\ Free(q)
        /\ Cardinality(CreatedLocations) < MaxLocations
        /\ IF ~assertMembership(entityId, actorId, AdminOnly)
           THEN /\ req' = [req EXCEPT ![q] = Respond(r, 403)]
                /\ UNCHANGED store
           ELSE IF parentId # 0 /\ parentId \notin 1..Len(location)
           THEN /\ req' = [req EXCEPT ![q] = Respond(r, 500)]
                /\ UNCHANGED store
           ELSE /\ location' = Append(location, [entityId |-> entityId, name |-> name,
                                                 parentId |-> parentId])
                /\ req' = [req EXCEPT ![q] = Respond(r, 200)]
                /\ UNCHANGED <<actor, answer, goal, planning, entity, entityActor, taskActor,
                               auditDown, changeSet, question, task, inventoryItem,
                               auditLog, consoleErrors, sensor, lens, track, lensRun,
                               clock>>

\* -------------------------------------------------------------------- joining
\* the EntityActor rows of an entity
MembershipsOf(entityId) == {m \in entityActor : m.entityId = entityId}

\* join: `memberships === 0 ? "ADMIN" : "MEMBER"`
joinRole(memberships) == IF memberships = 0 THEN "ADMIN" ELSE "MEMBER"

\* join: prisma.entityActor.findFirst; an existing membership is the response
JoinFind(q, actorId, entityId) ==
    /\ Free(q)
    /\ req' = [req EXCEPT ![q] =
                  IF \E m \in MembershipsOf(entityId) : m.actorId = actorId
                  THEN Respond([JoinInput(actorId, entityId) EXCEPT
                                   !.role = (CHOOSE m \in MembershipsOf(entityId) :
                                                m.actorId = actorId).role], 200)
                  ELSE [JoinInput(actorId, entityId) EXCEPT !.pc = "joinCount"]]
    /\ UNCHANGED store

\* join: prisma.entityActor.count and the choice of the role
JoinCount(q) ==
    LET r == req[q]
    IN  /\ r.op = "join" /\ r.pc = "joinCount"
        /\ req' = [req EXCEPT ![q].pc = "joinCreate",
                              ![q].role = joinRole(Cardinality(MembershipsOf(r.entityId)))]
        /\ UNCHANGED store

\* join: prisma.entityActor.create. The row references its Entity and its
\* Actor and is unique per (entityId, actorId): the create throws otherwise.
JoinCreate(q) ==
    LET r == req[q]
    IN  /\ r.op = "join" /\ r.pc = "joinCreate"
        /\ IF \/ r.entityId \notin entity
              \/ r.actorId \notin actor
              \/ \E m \in MembershipsOf(r.entityId) : m.actorId = r.actorId
           THEN /\ req' = [req EXCEPT ![q] = Respond(r, 500)]
                /\ UNCHANGED store
           ELSE /\ entityActor' = entityActor \cup
                                      {[entityId |-> r.entityId, actorId |-> r.actorId,
                                        role |-> r.role]}
                /\ req' = [req EXCEPT ![q].pc = "joinAudit"]
                /\ UNCHANGED <<actor, answer, goal, planning, entity, location, taskActor,
                               auditDown, changeSet, question, task, inventoryItem,
                               auditLog, consoleErrors, sensor, lens, track, lensRun,
                               clock>>

\* join: logAudit and the response
JoinAudit(q) ==
    LET r == req[q]
    IN  /\ r.op = "join" /\ r.pc = "joinAudit"
        /\ consoleErrors' = logErrors
        /\ auditLog' = logAudit(auditLog, r.entityId, r.actorId, "ENTITY", r.entityId,
                                "JOIN_ENTITY")
        /\ req' = [req EXCEPT ![q] = Respond(r, AuditedResponse(200))]
        /\ UNCHANGED <<actor, answer, goal, planning, entity, location, entityActor,
                       taskActor, auditDown, changeSet, question, task, inventoryItem,
                       sensor, lens, track, lensRun, clock>>

\* ------------------------------------------------------------------ demo seed
\* ensureDefaultSensors: `const sensors = [...]`, the types in loop order
defaultSensorTypes == <<"MOBILE_CAMERA", "WEB_UPLOAD">>

\* seed/demo: the Actor with email demo@ledger.local, the Entity named
\* "Demo Household", and the start of the current week
DemoActor == "demo"
DemoEntity == "demo-household"
DemoWeek == "W1"

SeedInput ==
    [Input("seedDemo", "none", 0) EXCEPT !.pc = "seedSensorFind", !.entityId = DemoEntity,
                                         !.idx = 1]

\* the position of a seed request after the sensor type at r.idx is settled
SeedAdvance(r) ==
    IF r.idx < Len(defaultSensorTypes)
    THEN [r EXCEPT !.pc = "seedSensorFind", !.idx = r.idx + 1]
    ELSE [r EXCEPT !.pc = "seedRest"]

\* the Sensor rows prisma.sensor.findFirst may return
SensorsOf(entityId, type) ==
    {i \in 1..Len(sensor) : sensor[i].entityId = entityId /\ sensor[i].type = type}

\* prisma.inventoryItem.upsert of seed/demo: by the unique triple, update or
\* create with the same quantity
seedUpsert(inv, resourceId, locationId, quantity) ==
    LET ids == ItemsAt(inv, DemoEntity, resourceId, locationId)
    IN  IF ids = {}
        THEN Append(inv, NewInventoryItem(DemoEntity, resourceId, locationId, quantity))
        ELSE [i \in 1..Len(inv) |-> IF i \in ids THEN [inv[i] EXCEPT !.quantity = quantity]
                                    ELSE inv[i]]

\* POST /seed/demo, up to the sensors: ensureDefaultLenses, the demo Actor and
\* the demo Entity (each found or created) and ensureBaseLocations. No
\* requireActor on this route.
SeedStart(q) ==
    /\ Free(q)
    /\ lens' = ensureDefaultLenses(lens)
    /\ actor' = actor \cup {DemoActor}
    /\ entity' = entity \cup {DemoEntity}
    /\ location' = ensureBaseLocations(location, DemoEntity)
    /\ req' = [req EXCEPT ![q] = SeedInput]
    /\ UNCHANGED <<answer, goal, planning, entityActor, taskActor, auditDown, changeSet,
                   question, task, inventoryItem, auditLog, consoleErrors, sensor, track,
                   lensRun, clock>>

\* ensureDefaultSensors in seed/demo: prisma.sensor.findFirst of one type
SeedSensorFind(q) ==
    LET r == req[q]
    IN  /\ r.op = "seedDemo" /\ r.pc = "seedSensorFind"
        /\ req' = [req EXCEPT ![q] =
                      IF SensorsOf(r.entityId, defaultSensorTypes[r.idx]) # {}
                      THEN SeedAdvance(r)
                      ELSE [r EXCEPT !.pc = "seedSensorCreate"]]
        /\ UNCHANGED store

\* ensureDefaultSensors in seed/demo: prisma.sensor.create when findFirst
\* returned nothing
SeedSensorCreate(q) ==
    LET r == req[q]
    IN  /\ r.op = "seedDemo" /\ r.pc = "seedSensorCreate"
        /\ sensor' = Append(sensor, [entityId |-> r.entityId,
                                     type |-> defaultSensorTypes[r.idx]])
        /\ req' = [req EXCEPT ![q] = SeedAdvance(r)]
        /\ UNCHANGED <<actor, answer, goal, planning, entity, location, entityActor,
                       taskActor, auditDown, changeSet, question, task, inventoryItem,
                       auditLog, consoleErrors, lens, track, lensRun, clock>>

\* seed/demo after the sensors: the ADMIN membership upsert, the two
\* InventoryItem upserts (findMany of Pantry and Fridge asks no ordering, so
\* either row may be the first), the week's Goal, its PLAN_WEEKLY_MEALS task,
\* the ACCOUNTABLE TaskActor and the Planning, each found or created
SeedRest(q) ==
    LET r == req[q]
        goals == GoalsOf(DemoEntity, DemoWeek)
        goals2 == IF goals = {}
                  THEN Append(goal, [entityId |-> DemoEntity, type |-> "WEEKLY_MEAL_PLAN",
                                     state |-> "PENDING", periodStart |-> DemoWeek])
                  ELSE goal
        planTasks == {i \in 1..Len(task) : /\ task[i].entityId = DemoEntity
                                          /\ task[i].type = "PLAN_WEEKLY_MEALS"}
        tasks2 == IF planTasks = {}
                  THEN Append(task, NewTask(DemoEntity, "PLAN_WEEKLY_MEALS", "PENDING",
                                            None, None, <<>>))
                  ELSE task
    IN  /\ r.op = "seedDemo" /\ r.pc = "seedRest"
        /\ entityActor' = {m \in entityActor :
                              ~(m.entityId = DemoEntity /\ m.actorId = DemoActor)}
                          \cup {[entityId |-> DemoEntity, actorId |-> DemoActor,
                                 role |-> "ADMIN"]}
        /\ \E first \in {"Pantry", "Fridge"} :
              LET second == IF first = "Pantry" THEN "Fridge" ELSE "Pantry"
              IN  inventoryItem' = seedUpsert(seedUpsert(inventoryItem, "Gold potatoes",
                                                         first, 2),
                                              "Ground beef", second, 1)
        /\ goal' = goals2
        /\ task' = tasks2
        /\ \E g \in {i \in 1..Len(goals2) : /\ goals2[i].entityId = DemoEntity
                                           /\ goals2[i].periodStart = DemoWeek},
              t \in {i \in 1..Len(tasks2) : /\ tasks2[i].entityId = DemoEntity
                                           /\ tasks2[i].type = "PLAN_WEEKLY_MEALS"} :
              /\ taskActor' = upsertTaskActor(taskActor, [taskId |-> t, actorId |-> DemoActor,
                                                          role |-> "ACCOUNTABLE"])
              /\ planning' = IF \E i \in 1..Len(planning) : planning[i].taskId = t
                             THEN planning
                             ELSE Append(planning, [entityId |-> DemoEntity, goalId |-> g,
                                                    taskId |-> t])
        /\ req' = [req EXCEPT ![q] = Respond(r, 200)]
        /\ UNCHANGED <<actor, answer, entity, location, auditDown, changeSet, question,
                       auditLog, consoleErrors, sensor, lens, track, lensRun, clock>>

\* -------------------------------------------------------------- specifications
\* the steps of the approve and apply handlers
Review(q) ==
    \/ \E a \in Actors, i \in 1..MaxChangeSets : ApplyFind(q, a, i)
    \/ ApplyAuthorize(q)
    \/ applyInventoryDiff(q)
    \/ applyWeeklyPlan(q)
    \/ ApplyBookkeeping(q)
    \/ ApplyUpdate(q)
    \/ ApplyAudit(q)
    \/ \E a \in Actors, i \in 1..MaxChangeSets : ApproveFind(q, a, i)
    \/ ApproveAuthorize(q)
    \/ ApproveUpdate(q)
    \/ ApproveAudit(q)

\* the requests that create ChangeSets, and the rows they need
Propose(q) ==
    \/ \E a \in Actors, p \in ProposalInputs : CreateChangeSet(q, a, p[1], p[2])
    \/ \E a \in Actors, res \in ResourceIds, loc \in LocationIds, n \in DirectQuantityInputs :
          CreateInventory(q, a, res, loc, n)
    \/ \E a \in Actors, i \in 1..MaxInventory, n \in QuantityInputs : RequestToBuy(q, a, i, n)
    \/ \E a \in Actors, t \in LensTypeInputs : CaptureAndProcess(q, a, t)

Capture(q) ==
    \/ \E a \in Actors, b \in TrackActorInputs, st \in SensorTypeInputs, t \in LensTypeInputs :
          CreateTrack(q, a, b, st, t)
    \/ \E a \in Actors, i \in 1..(MaxTracks + MaxChangeSets) : ProcessLensRunRoute(q, a, i)

\* every request, the slots interleaving at every awaited call of approve and apply
Next == \E q \in Requests : Propose(q) \/ Capture(q) \/ Review(q)
Spec == Init /\ [][Next]_vars

\* two requests on ChangeSets a client created, interleaving at every awaited call
RaceNext ==
    \E q \in Requests :
        \/ \E a \in Actors, p \in ProposalInputs : CreateChangeSet(q, a, p[1], p[2])
        \/ Review(q)
RaceSpec == Init /\ [][RaceNext]_vars

\* proposal, approval and application, one request at a time: each request runs
\* to its response before the next one starts
SeqNext == \E q \in SeqRequests : Propose(q) \/ Review(q)
SeqSpec == Init /\ [][SeqNext]_vars

\* every route that creates a ChangeSet, one request at a time
ProposeNext == \E q \in SeqRequests : Propose(q) \/ Capture(q)
ProposeSpec == Init /\ [][ProposeNext]_vars

\* a BUY_RESOURCE task about an existing InventoryItem, created by a client
CreateBuyTask(q) ==
    \E a \in OwnerInputs, i \in 1..Len(inventoryItem), n \in BuyQuantityInputs :
        CreateTask(q, a, "BUY_RESOURCE", None,
                   BuyMetadata(i, inventoryItem[i].resourceId, inventoryItem[i].locationId, n),
                   FALSE)

\* the steps of the setStatus handler after its read
SetStatusSteps(q) ==
    \/ SetStatusUpdate(q)
    \/ SetStatusUpsert(q)
    \/ SetStatusAudit(q)

\* an InventoryItem, a BUY_RESOURCE task about it, and its completion
Complete(q) ==
    \/ \E a \in OwnerInputs, res \in ResourceIds, loc \in LocationIds,
          n \in DirectQuantityInputs : CreateInventory(q, a, res, loc, n)
    \/ CreateBuyTask(q)
    \/ \E a \in Actors, t \in 1..MaxTasks, st \in CompletionInputs : SetStatusFind(q, a, t, st)
    \/ SetStatusSteps(q)

\* completion requests interleaving at every awaited call
StatusNext == \E q \in Requests : Complete(q)
StatusSpec == Init /\ [][StatusNext]_vars

\* the steps of approve and of apply on an INVENTORY_DIFF ChangeSet
InventoryReview(q) ==
    \/ \E a \in Actors, i \in 1..MaxChangeSets : ApplyFind(q, a, i)
    \/ ApplyAuthorize(q)
    \/ applyInventoryDiff(q)
    \/ ApplyBookkeeping(q)
    \/ ApplyUpdate(q)
    \/ ApplyAudit(q)
    \/ \E a \in Actors, i \in 1..MaxChangeSets : ApproveFind(q, a, i)
    \/ ApproveAuthorize(q)
    \/ ApproveUpdate(q)
    \/ ApproveAudit(q)

\* every writer of InventoryItem rows, one request at a time: direct creation,
\* the INVENTORY_DIFF applier and the completion of BUY_RESOURCE tasks
InventoryNext ==
    \E q \in SeqRequests :
        \/ \E a \in OwnerInputs, res \in ResourceIds, loc \in LocationIds,
              n \in DirectQuantityInputs : CreateInventory(q, a, res, loc, n)
        \/ \E a \in OwnerInputs, p \in InventoryProposalInputs :
              CreateChangeSet(q, a, p[1], p[2])
        \/ InventoryReview(q)
        \/ CreateBuyTask(q)
        \/ \E a \in OwnerInputs, t \in 1..MaxTasks, st \in StatusInputs :
              SetStatusFind(q, a, t, st)
        \/ SetStatusSteps(q)
InventorySpec == Init /\ [][InventoryNext]_vars

\* the capture pipeline, one request at a time: tracks with a LensRun, their
\* processing, and capture-and-process, next to the to-buy requests that also
\* write ChangeSets and Questions
LensNext ==
    \E q \in SeqRequests :
        \/ \E a \in Actors, b \in TrackActorInputs, st \in SensorTypeInputs,
              t \in LensTypeInputs : CreateTrack(q, a, b, st, t)
        \/ \E a \in Actors, i \in 1..MaxTracks : ProcessLensRunRoute(q, a, i)
        \/ \E a \in OwnerInputs, t \in LensTypeInputs : CaptureAndProcess(q, a, t)
        \/ \E a \in OwnerInputs, res \in ResourceIds, loc \in LocationIds,
              n \in DirectQuantityInputs : CreateInventory(q, a, res, loc, n)
        \/ \E a \in OwnerInputs, i \in 1..MaxInventory, n \in QuantityInputs :
              RequestToBuy(q, a, i, n)
LensSpec == Init /\ [][LensNext]_vars

\* task creation, assignment and unassignment, one request at a time
AssignNext ==
    \E q \in SeqRequests :
        \/ \E a \in Actors, ty \in TaskTypeInputs, b \in BOOLEAN :
              CreateTask(q, a, ty, None, None, b)
        \/ \E a \in Actors, t \in 1..MaxTasks, b \in AssigneeInputs, ro \in RoleInputs :
              Assign(q, a, t, b, ro)
        \/ \E a \in Actors, t \in 1..MaxTasks, b \in AssigneeInputs, ro \in RoleInputs :
              Unassign(q, a, t, b, ro)
AssignSpec == Init /\ [][AssignNext]_vars

\* prisma.auditLog.create inside logAudit starts or stops throwing
AuditOutage ==
    /\ auditDown' = ~auditDown
    /\ UNCHANGED <<actor, answer, goal, planning, entity, location, entityActor, taskActor, changeSet, question, task, inventoryItem,
                   auditLog, consoleErrors, sensor, lens, track, lensRun, clock, req>>

\* the audited requests, one at a time, while the audit table comes and goes:
\* creation, approval and application of ChangeSets, capture-and-process, and
\* assignment and status changes of the tasks the appliers create
AuditNext ==
    \/ AuditOutage
    \/ \E q \in SeqRequests :
          \/ \E a \in OwnerInputs, p \in AuditedProposalInputs :
                CreateChangeSet(q, a, p[1], p[2])
          \/ Review(q)
          \/ \E a \in OwnerInputs, t \in LensTypeInputs : CaptureAndProcess(q, a, t)
          \/ \E a \in OwnerInputs, t \in 1..MaxTasks, b \in OwnerInputs,
                ro \in RoleInputs : Room /\ Assign(q, a, t, b, ro)
          \/ \E a \in OwnerInputs, t \in 1..MaxTasks, st \in CompletionInputs :
                Room /\ SetStatusFind(q, a, t, st)
          \/ SetStatusUpdate(q)
          \/ SetStatusAudit(q)
AuditSpec == Init /\ [][AuditNext]_vars

\* requests of Clerk users, one at a time: the middleware provisions the Actor
\* row, then requireActor and the route decide
AuthNext ==
    \E q \in SeqRequests :
        \/ RequireActor(q)
        \/ \E a \in Actors, p \in AuditedProposalInputs :
              ClerkCreateChangeSet(q, a, p[1], p[2])
        \/ \E a \in Actors, res \in ResourceIds, loc \in LocationIds,
              n \in DirectQuantityInputs : ClerkCreateInventory(q, a, res, loc, n)
        \/ \E a \in Actors, b \in TrackActorInputs, st \in SensorTypeInputs,
              t \in LensTypeInputs : ClerkCreateTrack(q, a, b, st, t)
AuthSpec == Init /\ [][AuthNext]_vars

\* the lens of the captures whose Question is answered
AnsweredLensInputs == {"INVENTORY_LENS"}

\* a ChangeSet with its Question from capture-and-process, a task, answers to
\* the Question, and the review of the ChangeSet, one request at a time
AnswerNext ==
    \E q \in SeqRequests :
        \/ \E a \in OwnerInputs, t \in AnsweredLensInputs : CaptureAndProcess(q, a, t)
        \/ \E a \in OwnerInputs, ty \in TaskTypeInputs :
              Room /\ CreateTask(q, a, ty, None, None, FALSE)
        \/ \E a \in Actors, i \in 1..MaxChangeSets, t \in 1..MaxTasks, v \in ValueInputs :
              AnswerQuestion(q, a, i, t, v)
        \/ InventoryReview(q)
AnswerSpec == Init /\ [][AnswerNext]_vars

\* weekly-plan goal requests interleaving at every awaited call
GoalNext ==
    \E q \in Requests :
        \/ \E a \in Actors, p \in PeriodInputs : GoalFind(q, a, p)
        \/ GoalCreate(q)
        \/ GoalTask(q)
        \/ GoalTaskActor(q)
        \/ GoalPlanning(q)
GoalSpec == Init /\ [][GoalNext]_vars

\* types of the tasks a client creates before changing their status
CompletedTypeInputs == {"BUY_RESOURCE", "COOK_RECIPE_STEP"}

\* a to-buy item of a payload that carries no inventoryItemId
ToBuyProposalInputs ==
    { <<"INVENTORY_DIFF",
        Payload(<<Item(Some("R1"), Some("L1"), Some(2), "TO_BUY", None)>>, <<>>)>> }

\* a task of either type, without metadata or with metadata about an
\* InventoryItem, created by a client
CreateTaskToComplete(q) ==
    \E a \in OwnerInputs, type \in CompletedTypeInputs :
        \/ CreateTask(q, a, type, None, None, FALSE)
        \/ \E i \in 1..Len(inventoryItem), n \in BuyQuantityInputs :
              CreateTask(q, a, type, None,
                         BuyMetadata(i, inventoryItem[i].resourceId,
                                     inventoryItem[i].locationId, n),
                         FALSE)

\* status changes of every kind of task, one request at a time: tasks a client
\* created and the to-buy task the applier derives from a payload item
FrameNext ==
    \E q \in SeqRequests :
        \/ \E a \in OwnerInputs, res \in ResourceIds, loc \in LocationIds,
              n \in DirectQuantityInputs : CreateInventory(q, a, res, loc, n)
        \/ CreateTaskToComplete(q)
        \/ \E a \in OwnerInputs, p \in ToBuyProposalInputs : CreateChangeSet(q, a, p[1], p[2])
        \/ InventoryReview(q)
        \/ \E a \in OwnerInputs, t \in 1..MaxTasks, st \in StatusInputs :
              SetStatusFind(q, a, t, st)
        \/ SetStatusSteps(q)
FrameSpec == Init /\ [][FrameNext]_vars

\* the to-buy flow, one request at a time: an InventoryItem, the to-buy request
\* about it with or without a quantity, approval, application, and the
\* completion of tasks
ToBuyNext ==
    \E q \in SeqRequests :
        \/ \E a \in OwnerInputs, res \in ResourceIds, loc \in LocationIds,
              n \in DirectQuantityInputs : CreateInventory(q, a, res, loc, n)
        \/ \E a \in OwnerInputs, i \in 1..MaxInventory, n \in QuantityInputs :
              RequestToBuy(q, a, i, n)
        \/ InventoryReview(q)
        \/ \E a \in OwnerInputs, t \in 1..MaxTasks, st \in CompletionInputs :
              SetStatusFind(q, a, t, st)
        \/ SetStatusSteps(q)
ToBuySpec == Init /\ [][ToBuyNext]_vars

\* the completion of a BUY_RESOURCE task whose InventoryItem was replaced in
\* the meantime, one request at a time
ReplacedNext ==
    \E q \in SeqRequests :
        \/ \E a \in OwnerInputs, res \in ResourceIds, loc \in LocationIds,
              n \in DirectQuantityInputs : CreateInventory(q, a, res, loc, n)
        \/ CreateBuyTask(q)
        \/ \E a \in OwnerInputs, p \in ReplacingProposalInputs :
              CreateChangeSet(q, a, p[1], p[2])
        \/ InventoryReview(q)
        \/ \E a \in OwnerInputs, t \in 1..MaxTasks, st \in CompletionInputs :
              SetStatusFind(q, a, t, st)
        \/ SetStatusSteps(q)
ReplacedSpec == Init /\ [][ReplacedNext]_vars

\* requests by members and by an Actor who is no member of the household, one
\* at a time, on an InventoryItem and a BUY_RESOURCE task the ADMIN made
MemberNext ==
    \E q \in SeqRequests :
        \/ \E a \in Actors : CreateActor(q, a)
        \/ \E a \in OwnerInputs, res \in ResourceIds, loc \in LocationIds,
              n \in DirectQuantityInputs : CreateInventory(q, a, res, loc, n)
        \/ CreateBuyTask(q)
        \/ \E a \in Actors, t \in 1..MaxTasks, st \in CompletionInputs :
              SetStatusFind(q, a, t, st)
        \/ SetStatusSteps(q)
        \/ \E a \in Actors, t \in 1..MaxTasks, tags \in TagInputs : UpdateTags(q, a, t, tags)
        \/ \E a \in Actors, t \in AnsweredLensInputs : CaptureAndProcess(q, a, t)
MemberSpec == Init /\ [][MemberNext]_vars

\* the actor of an entity-creation request that leaves the entity without
\* memberships: one without an Actor row
StrangerInputs == {"outsider"}

\* join requests interleaving at every awaited call, on the household and on
\* an entity without memberships
JoinNext ==
    \E q \in Requests :
        \/ \E a \in StrangerInputs : CreateEntity(q, a, None)
        \/ \E a \in Actors, e \in EntityIds : JoinFind(q, a, e)
        \/ JoinCount(q)
        \/ JoinCreate(q)
        \/ JoinAudit(q)
JoinSpec == Init /\ [][JoinNext]_vars

\* the requests that provision Sensors and Lenses, interleaving at the awaited
\* calls of ensureDefaultSensors in seed/demo
ProvisionNext ==
    \E q \in Requests :
        \/ \E a \in OwnerInputs, b \in TrackActorInputs, st \in SensorTypeInputs,
              t \in AnsweredLensInputs : CreateTrack(q, a, b, st, t)
        \/ \E a \in OwnerInputs, t \in AnsweredLensInputs : CaptureAndProcess(q, a, t)
        \/ \E a \in OwnerInputs : CreateEntity(q, a, None)
        \/ SeedStart(q)
        \/ SeedSensorFind(q)
        \/ SeedSensorCreate(q)
        \/ SeedRest(q)
ProvisionSpec == Init /\ [][ProvisionNext]_vars

\* ChangeSets whose application fails part-way, one request at a time; a
\* request starts while the Task table has room
FailNext ==
    \E q \in SeqRequests :
        \/ \E a \in OwnerInputs, p \in FailingProposalInputs :
              CreateChangeSet(q, a, p[1], p[2])
        \/ (Free(q) => Len(task) <= MaxTasks) /\ InventoryReview(q)
FailSpec == Init /\ [][FailNext]_vars

\* the INVENTORY_DIFF applier on every kind of item, one request at a time, with
\* and without a row that direct creation made before
DiffNext ==
    \E q \in SeqRequests :
        \/ \E a \in OwnerInputs, res \in ResourceIds, loc \in LocationIds,
              n \in DirectQuantityInputs : CreateInventory(q, a, res, loc, n)
        \/ \E a \in OwnerInputs, p \in DiffProposalInputs : CreateChangeSet(q, a, p[1], p[2])
        \/ InventoryReview(q)
DiffSpec == Init /\ [][DiffNext]_vars

\* Households and their locations: any parentId of the store, one that is
\* missing, or none.
LocationNext ==
    \E q \in Requests :
        \/ \E a \in Actors, admin \in {None} \cup {Some(x) : x \in Actors} :
              CreateEntity(q, a, admin)
        \/ \E a \in Actors, e \in entity, n \in LocationNameInputs,
              p \in 0..(Len(location) + 1) : CreateLocation(q, a, e, n, p)
LocationSpec == Init /\ [][LocationNext]_vars

\* ------------------------------------------------------------------ properties
ChangeSetIds == 1..Len(changeSet)

\* slot q took this step
Step(q) == req'[q] # req[q]

\* the actor holds an ADMIN EntityActor row of the household
IsAdmin(actorId) == [entityId |-> E1, actorId |-> actorId, role |-> "ADMIN"] \in entityActor

\* number of AuditLog rows with this action about this ChangeSet
AuditCount(action, id) ==
    Cardinality({i \in 1..Len(auditLog) :
                    /\ auditLog[i].action = action
                    /\ auditLog[i].subjectType = "CHANGESET"
                    /\ auditLog[i].subjectId = id})

\* the APPLY_CHANGESET bookkeeping tasks
BookkeepingTasks == {i \in 1..Len(task) : task[i].type = "APPLY_CHANGESET"}

\* the step is one of an apply (approve) request of slot q on ChangeSet id
StepOf(q, op, id) ==
    /\ Step(q)
    /\ req'[q].op = op
    /\ req'[q].changeSetId = id
    /\ \/ ~Free(q) /\ req[q].op = op
       \/ Free(q) /\ req'[q].pc = "authorize"

\* the step rejects, or is the read before the rejection: the request goes no
\* further than its status test, answers `code` and writes nothing
Rejects(q, code) ==
    /\ UNCHANGED store
    /\ req'[q].pc \in {"authorize", "done"}
    /\ req'[q].pc = "done" => req'[q].resp = code

\* C1: a ChangeSet is applied at most once, also by racing apply requests: no
\* ChangeSet has more than one APPLY_CHANGESET audit entry, and there are no
\* more APPLY_CHANGESET bookkeeping tasks than ChangeSets.
C1_AppliedAtMostOnce ==
    /\ \A id \in ChangeSetIds : AuditCount("APPLY_CHANGESET", id) <= 1
    /\ Cardinality(BookkeepingTasks) <= Len(changeSet)

\* C2: APPLIED is terminal: no step takes a ChangeSet out of status APPLIED.
C2_AppliedIsTerminal ==
    [][\A id \in ChangeSetIds :
          changeSet[id].status = "APPLIED" => changeSet'[id].status = "APPLIED"]_vars

\* C3: requests running one after the other create every ChangeSet PENDING and
\* change a status only PENDING -> APPROVED, in an approve request, and
\* APPROVED -> APPLIED, in an apply request.
C3_LegalTransitions ==
    [][/\ Len(changeSet') >= Len(changeSet)
       /\ \A id \in 1..Len(changeSet') :
             IF id > Len(changeSet)
             THEN changeSet'[id].status = "PENDING"
             ELSE \/ changeSet'[id].status = changeSet[id].status
                  \/ /\ changeSet[id].status = "PENDING"
                     /\ changeSet'[id].status = "APPROVED"
                     /\ \E q \in Requests : StepOf(q, "approve", id)
                  \/ /\ changeSet[id].status = "APPROVED"
                     /\ changeSet'[id].status = "APPLIED"
                     /\ \E q \in Requests : StepOf(q, "apply", id)]_vars

C3_Witness ==
    \E id \in ChangeSetIds :
        /\ changeSet[id].status = "APPLIED"
        /\ AuditCount("APPROVE_CHANGESET", id) = 1
        /\ AuditCount("APPLY_CHANGESET", id) = 1

\* C4: an apply request by an ADMIN on a ChangeSet that an earlier apply request
\* has applied answers 409 and writes nothing.
C4_SecondApplyConflict ==
    [][\A q \in Requests, id \in ChangeSetIds :
          /\ StepOf(q, "apply", id)
          /\ IsAdmin(req'[q].actorId)
          /\ AuditCount("APPLY_CHANGESET", id) >= 1
          => Rejects(q, 409)]_vars

C4_Witness ==
    \E q \in Requests :
        /\ req[q].pc = "done" /\ req[q].op = "apply" /\ req[q].resp = 409
        /\ IsAdmin(req[q].actorId)
        /\ req[q].changeSetId \in ChangeSetIds
        /\ AuditCount("APPLY_CHANGESET", req[q].changeSetId) = 1
        /\ BookkeepingTasks = {changeSet[req[q].changeSetId].taskId}

\* C5: an apply request by an ADMIN on a PENDING ChangeSet answers 409 and
\* writes nothing.
C5_ApplyPendingConflict ==
    [][\A q \in Requests, id \in ChangeSetIds :
          /\ StepOf(q, "apply", id)
          /\ IsAdmin(req'[q].actorId)
          /\ changeSet[id].status = "PENDING"
          => Rejects(q, 409)]_vars

C5_Witness ==
    \E q \in Requests :
        /\ req[q].pc = "done" /\ req[q].op = "apply" /\ req[q].resp = 409
        /\ IsAdmin(req[q].actorId)
        /\ req[q].changeSetId \in ChangeSetIds
        /\ changeSet[req[q].changeSetId].status = "PENDING"
        /\ task = <<>>

\* C6: an approve request by an ADMIN on an APPLIED ChangeSet answers 409 and
\* writes nothing: no status, no approvedAt, no audit entry.
C6_ApproveAppliedConflict ==
    [][\A q \in Requests, id \in ChangeSetIds :
          /\ StepOf(q, "approve", id)
          /\ IsAdmin(req'[q].actorId)
          /\ changeSet[id].status = "APPLIED"
          => Rejects(q, 409)]_vars

C6_Witness ==
    \E q \in Requests :
        /\ req[q].pc = "done" /\ req[q].op = "approve" /\ req[q].resp = 409
        /\ IsAdmin(req[q].actorId)
        /\ req[q].changeSetId \in ChangeSetIds
        /\ changeSet[req[q].changeSetId].status = "APPLIED"
        /\ AuditCount("APPROVE_CHANGESET", req[q].changeSetId) = 1

\* C7: an apply or approve request by an actor who is not ADMIN of the
\* ChangeSet's entity answers 403 and writes nothing, whatever the status.
C7_NonAdminForbidden ==
    [][\A q \in Requests, id \in ChangeSetIds, op \in {"apply", "approve"} :
          /\ StepOf(q, op, id)
          /\ ~IsAdmin(req'[q].actorId)
          => Rejects(q, 403)]_vars

C7_Witness ==
    /\ \E q \in Requests :
          /\ req[q].pc = "done" /\ req[q].op = "apply" /\ req[q].resp = 403
          /\ req[q].actorId = "member"
          /\ req[q].changeSetId \in ChangeSetIds
          /\ changeSet[req[q].changeSetId].status = "APPROVED"
    /\ task = <<>>

\* C8: every step that adds a ChangeSet is a request of an ADMIN of the entity.
C8_OnlyAdminsCreateChangeSets ==
    [][Len(changeSet') > Len(changeSet)
          => \E q \in Requests : Step(q) /\ IsAdmin(req'[q].actorId)]_vars

\* the payload of the inventory diff round trip
RoundTripPayload ==
    Payload(<<Item(Some("R1"), Some("L1"), Some(5), "NONE", None)>>, <<>>)

\* C9: when the apply of an INVENTORY_DIFF ChangeSet with the single item
\* (R1, L1, quantity 5) has answered 200, there is exactly one InventoryItem of
\* (E1, R1, L1), its quantity is 5, the ChangeSet is APPLIED and the audit log
\* has exactly one APPLY_CHANGESET entry for it.
C9_InventoryDiffRoundTrip ==
    \A q \in Requests :
        /\ req[q].pc = "done" /\ req[q].op = "apply" /\ req[q].resp = 200
        /\ changeSet[req[q].changeSetId].type = "INVENTORY_DIFF"
        /\ changeSet[req[q].changeSetId].payload = RoundTripPayload
        => /\ Cardinality(ItemsAt(inventoryItem, E1, "R1", "L1")) = 1
           /\ \A i \in ItemsAt(inventoryItem, E1, "R1", "L1") :
                 inventoryItem[i].quantity = 5
           /\ changeSet[req[q].changeSetId].status = "APPLIED"
           /\ AuditCount("APPLY_CHANGESET", req[q].changeSetId) = 1

C9_Witness ==
    \E q \in Requests :
        /\ req[q].pc = "done" /\ req[q].op = "apply" /\ req[q].resp = 200
        /\ changeSet[req[q].changeSetId].type = "INVENTORY_DIFF"
        /\ changeSet[req[q].changeSetId].payload = RoundTripPayload
        /\ Len(inventoryItem) = 1
        /\ inventoryItem[1] = NewInventoryItem(E1, "R1", "L1", 5)
        /\ Len(auditLog) = 3

\* an INVENTORY_DIFF ChangeSet whose single item is a TO_BUY of quantity 2
IsToBuyTwo(cs) ==
    /\ cs.type = "INVENTORY_DIFF"
    /\ Len(cs.payload.items) = 1
    /\ cs.payload.items[1].action = "TO_BUY"
    /\ cs.payload.items[1].quantity = Some(2)
    /\ ~Skipped(cs.payload.items[1])

\* C10: no step of the apply of such a ChangeSet touches an InventoryItem; its
\* applier step adds exactly one Task, a PENDING BUY_RESOURCE task tagged
\* "to-buy" whose metadata carries quantity 2 and the item's resourceId,
\* locationId and inventoryItemId; its bookkeeping step adds the
\* APPLY_CHANGESET task, and no other step adds a Task; the applier's result
\* names that one to-buy task.
C10_ToBuyFlow ==
    [][\A q \in Requests :
          Step(q) /\ ~Free(q) /\ req[q].op = "apply" /\ IsToBuyTwo(req[q].snap)
          => LET item == req[q].snap.payload.items[1]
             IN  /\ inventoryItem' = inventoryItem
                 /\ req[q].pc = "applier" =>
                       /\ Len(task') = Len(task) + 1
                       /\ SubSeq(task', 1, Len(task)) = task
                       /\ task'[Len(task')].type = "BUY_RESOURCE"
                       /\ task'[Len(task')].status = "PENDING"
                       /\ task'[Len(task')].tags = <<"to-buy">>
                       /\ task'[Len(task')].entityId = req[q].snap.entityId
                       /\ task'[Len(task')].metadata =
                             Some([inventoryItemId |-> item.inventoryItemId,
                                   resourceId |-> item.resourceId[1],
                                   locationId |-> item.locationId[1],
                                   quantity |-> 2])
                       /\ req'[q].pc = "bookkeeping"
                 /\ req[q].pc = "bookkeeping" =>
                       /\ Len(task') = Len(task) + 1
                       /\ SubSeq(task', 1, Len(task)) = task
                       /\ task'[Len(task')].type = "APPLY_CHANGESET"
                       /\ Len(req[q].result) = 1
                       /\ req[q].result[1].action = "to-buy"
                       /\ task[req[q].result[1].id].type = "BUY_RESOURCE"
                 /\ req[q].pc \notin {"applier", "bookkeeping"} => task' = task]_vars

C10_Witness ==
    \E id \in ChangeSetIds :
        /\ IsToBuyTwo(changeSet[id])
        /\ changeSet[id].status = "APPLIED"
        /\ Len(task) = 2
        /\ task[1].type = "BUY_RESOURCE"
        /\ task[1].metadata[1].quantity = 2
        /\ task[2].type = "APPLY_CHANGESET"
        /\ AuditCount("APPLY_CHANGESET", id) = 1

\* C11: the apply of a WEEKLY_MEAL_PLAN ChangeSet whose payload has n task
\* specs takes n applier steps, the i-th adding one Task of the entity with the
\* i-th spec's type and its status (PENDING when the spec has none), then one
\* bookkeeping step adding a DONE APPLY_CHANGESET Task the ChangeSet points at;
\* no other step of the request adds a Task: n + 1 new tasks.
C11_WeeklyPlanFanOut ==
    [][\A q \in Requests :
          Step(q) /\ ~Free(q) /\ req[q].op = "apply"
                  /\ req[q].snap.type = "WEEKLY_MEAL_PLAN"
          => LET specs == req[q].snap.payload.tasks
                 i == req[q].idx
             IN  /\ req[q].pc = "applier" =>
                       /\ i \in 1..Len(specs)
                       /\ Len(req[q].result) = i - 1
                       /\ Len(task') = Len(task) + 1
                       /\ SubSeq(task', 1, Len(task)) = task
                       /\ task'[Len(task')].entityId = req[q].snap.entityId
                       /\ specs[i].type # None => task'[Len(task')].type = specs[i].type[1]
                       /\ task'[Len(task')].status =
                             IF specs[i].status = None THEN "PENDING" ELSE specs[i].status[1]
                       /\ req'[q].pc = IF i = Len(specs) THEN "bookkeeping" ELSE "applier"
                       /\ req'[q].idx = i + 1
                 /\ req[q].pc = "bookkeeping" =>
                       /\ Len(req[q].result) = Len(specs)
                       /\ Len(task') = Len(task) + 1
                       /\ SubSeq(task', 1, Len(task)) = task
                       /\ task'[Len(task')].type = "APPLY_CHANGESET"
                       /\ task'[Len(task')].status = "DONE"
                       /\ changeSet'[req[q].changeSetId].taskId = Len(task')
                 /\ req[q].pc \notin {"applier", "bookkeeping"} => task' = task]_vars

C11_Witness ==
    \E id \in ChangeSetIds :
        /\ changeSet[id].type = "WEEKLY_MEAL_PLAN"
        /\ Len(changeSet[id].payload.tasks) = 2
        /\ changeSet[id].status = "APPLIED"
        /\ Len(task) = 3
        /\ task[1].type = "BUY_RESOURCE" /\ task[1].status = "PENDING"
        /\ task[2].type = "COOK_RECIPE_STEP" /\ task[2].status = "PENDING"
        /\ task[3].type = "APPLY_CHANGESET" /\ task[3].status = "DONE"
        /\ changeSet[id].taskId = 3

IsBuyTask(t) ==
    t.type = "BUY_RESOURCE" /\ t.metadata # None /\ t.metadata[1].inventoryItemId # None

\* C13: with requests running one after the other, a setStatus(DONE) on a
\* BUY_RESOURCE task whose stored status is not DONE adds metadata.quantity to
\* the InventoryItem of its metadata, in its upsert step and nowhere else; a
\* setStatus(DONE) on the task when it is already DONE has no upsert step and
\* leaves every InventoryItem as it is.
C13_IncrementOnce ==
    [][\A q \in Requests :
          Step(q) /\ ~Free(q) /\ req[q].op = "setStatus" /\ req[q].status = "DONE"
                  /\ IsBuyTask(req[q].existing)
          => LET meta == req[q].existing.metadata[1]
                 id == meta.inventoryItemId[1]
             IN  /\ req[q].pc = "update" => task[req[q].taskId].status = req[q].existing.status
                 /\ IF req[q].existing.status = "DONE"
                    THEN inventoryItem' = inventoryItem /\ req'[q].pc # "upsert"
                    ELSE /\ req[q].pc = "update" =>
                               inventoryItem' = inventoryItem /\ req'[q].pc = "upsert"
                         /\ req[q].pc = "upsert" /\ id \in 1..Len(inventoryItem)
                                                /\ inventoryItem[id].live =>
                               inventoryItem' = [inventoryItem EXCEPT
                                                    ![id].quantity = @ + meta.quantity]
                         /\ req[q].pc = "audit" => inventoryItem' = inventoryItem]_vars

\* the second of two setStatus(DONE) requests is about to answer: the item
\* created with quantity 3 holds 3 + 2
C13_Witness ==
    \E q \in Requests :
        /\ req[q].op = "setStatus" /\ req[q].pc = "audit" /\ req[q].status = "DONE"
        /\ IsBuyTask(req[q].existing)
        /\ req[q].existing.status = "DONE"
        /\ req[q].existing.metadata[1].quantity = 2
        /\ task[req[q].taskId].status = "DONE"
        /\ inventoryItem = <<NewInventoryItem(E1, "R1", "L1", 5)>>

\* C14: the completion of BUY_RESOURCE tasks adds metadata.quantity once per
\* change of a task's stored status to DONE.  Where tasks are created PENDING
\* and only ever set DONE, each task has at most one such change, so an
\* InventoryItem never holds more than the quantity it was created with plus
\* the quantities of the DONE tasks about it.
C14_OneIncrementPerTransition ==
    \A i \in 1..Len(inventoryItem) :
        LET done == {t \in 1..Len(task) :
                        /\ IsBuyTask(task[t]) /\ task[t].status = "DONE"
                        /\ task[t].metadata[1].inventoryItemId = Some(i)}
        IN  \E n \in DirectQuantityInputs, b \in BuyQuantityInputs :
                inventoryItem[i].quantity <= n + b * Cardinality(done)

\* the (task, actor, role) an assign / unassign request names
Named(r) == [taskId |-> r.taskId, actorId |-> r.assignee, role |-> r.role]

\* the TaskActor rows of a table
Rows(t) == {t[i] : i \in 1..Len(t)}

\* C15: in every step the TaskActor table keeps at most one row per (task,
\* actor, role); an assign that answers 200 leaves the named row in the table,
\* and the table as it was when the row was there already; an unassign by a
\* member on an existing task answers 200, leaves the named row out, and the
\* table as it was when there was no such row.
C15_AssignIdempotent ==
    [][/\ \A i, j \in 1..Len(taskActor') : taskActor'[i] = taskActor'[j] => i = j
       /\ \A q \in Requests :
             Step(q) /\ req'[q].op \in {"assign", "unassign"}
             => /\ req'[q].op = "assign" /\ req'[q].resp = 200 =>
                      /\ Named(req'[q]) \in Rows(taskActor')
                      /\ Named(req'[q]) \in Rows(taskActor) => taskActor' = taskActor
                /\ req'[q].op = "unassign" /\ req'[q].taskId \in 1..Len(task)
                      /\ assertMembership(E1, req'[q].actorId, AnyRole) =>
                      /\ req'[q].resp = 200
                      /\ Named(req'[q]) \notin Rows(taskActor')
                      /\ Named(req'[q]) \notin Rows(taskActor) => taskActor' = taskActor]_vars

\* two assigns and no unassign have been answered and the table holds one row
C15_Witness ==
    /\ Len(taskActor) = 1
    /\ Cardinality({i \in 1..Len(auditLog) : auditLog[i].action = "ASSIGN_TASK"}) = 2
    /\ \A i \in 1..Len(auditLog) : auditLog[i].action # "UNASSIGN_TASK"
    /\ \E q \in Requests : req[q].op = "assign" /\ req[q].resp = 200

\* C16: every ChangeSet has at least one Question whose changeSetId and
\* batchId are its id.
C16_QuestionPerChangeSet ==
    \A id \in ChangeSetIds :
        \E i \in 1..Len(question) :
            question[i].changeSetId = id /\ question[i].batchId = id

\* the step is a successful processLensRun, by its route or by capture
ProcessedBy(q) ==
    /\ Step(q)
    /\ req'[q].op \in {"processLensRun", "capture"}
    /\ req'[q].resp = 200

\* C17: a successful processLensRun adds exactly one ChangeSet, PENDING, of the
\* entity of the run's Track, of type WEEKLY_MEAL_PLAN for a MEAL_PLAN_LENS run
\* and INVENTORY_DIFF otherwise, and exactly one Question whose changeSetId and
\* batchId are the new id; it leaves the run COMPLETED with rawOutput equal to
\* the ChangeSet's payload, and the other runs as they were.
C17_ProcessLensRun ==
    [][\A q \in Requests :
          ProcessedBy(q)
          => LET id == Len(changeSet) + 1
             IN  /\ Len(changeSet') = id
                 /\ SubSeq(changeSet', 1, Len(changeSet)) = changeSet
                 /\ req'[q].changeSetId = id
                 /\ changeSet'[id].status = "PENDING"
                 /\ Len(question') = Len(question) + 1
                 /\ SubSeq(question', 1, Len(question)) = question
                 /\ question'[Len(question')].changeSetId = id
                 /\ question'[Len(question')].batchId = id
                 /\ \E i \in 1..Len(lensRun') :
                       /\ lensRun'[i].status = "COMPLETED"
                       /\ lensRun'[i].rawOutput = Some(changeSet'[id].payload)
                       /\ changeSet'[id].entityId = track'[lensRun'[i].trackId].entityId
                       /\ changeSet'[id].type =
                             IF lensRun'[i].lensType = "MEAL_PLAN_LENS"
                             THEN "WEEKLY_MEAL_PLAN" ELSE "INVENTORY_DIFF"
                       /\ \A j \in 1..Len(lensRun) : j # i => lensRun'[j] = lensRun[j]]_vars

\* a MEAL_PLAN_LENS run was processed by its route
C17_Witness ==
    \E q \in Requests :
        /\ req[q].op = "processLensRun" /\ req[q].pc = "done" /\ req[q].resp = 200
        /\ req[q].changeSetId \in ChangeSetIds
        /\ changeSet[req[q].changeSetId].type = "WEEKLY_MEAL_PLAN"
        /\ changeSet[req[q].changeSetId].status = "PENDING"
        /\ lensRun[req[q].lensRunId].status = "COMPLETED"
        /\ lensRun[req[q].lensRunId].rawOutput = Some(buildWeeklyPlanPayload)
        /\ Len(question) = Len(changeSet)

\* C18: a process request by a member on a LensRun that is already COMPLETED
\* answers 200 and adds one more ChangeSet and one more Question; the run
\* stays COMPLETED.
C18_ProcessNotIdempotent ==
    [][\A q \in Requests :
          /\ Step(q) /\ req'[q].op = "processLensRun"
          /\ req'[q].lensRunId \in 1..Len(lensRun)
          /\ lensRun[req'[q].lensRunId].status = "COMPLETED"
          /\ assertMembership(E1, req'[q].actorId, AnyRole)
          => /\ req'[q].resp = 200
             /\ Len(changeSet') = Len(changeSet) + 1
             /\ Len(question') = Len(question) + 1
             /\ lensRun'[req'[q].lensRunId].status = "COMPLETED"]_vars

\* one LensRun, two ChangeSets made from it
C18_Witness ==
    /\ Len(lensRun) = 1 /\ lensRun[1].status = "COMPLETED"
    /\ Len(changeSet) = 2 /\ Len(question) = 2
    /\ \A id \in ChangeSetIds :
          changeSet[id].subjectType = "TRACK" /\ changeSet[id].subjectId = lensRun[1].trackId
    /\ \E q \in Requests : req[q].op = "processLensRun" /\ req[q].resp = 200
                            /\ req[q].changeSetId = 2

\* the step is one in which logAudit caught a failed write
AuditFailed(q) ==
    /\ Step(q)
    /\ consoleErrors' = consoleErrors + 1

\* C19: a step in which the audit write fails still answers 200, adds no
\* AuditLog row and leaves the request's primary write in place: the ChangeSet
\* APPLIED with its bookkeeping task and the applier's rows (apply), APPROVED
\* (approve), the task with the requested status (setStatus), the TaskActor row
\* (assign), the new ChangeSet, Question and COMPLETED run (processLensRun), the
\* new ChangeSet (creation).
C19_AuditBestEffort ==
    [][\A q \in Requests :
          AuditFailed(q)
          => LET r == req'[q]
             IN  /\ r.resp = 200
                 /\ r.pc = "done"
                 /\ auditLog' = auditLog
                 /\ r.op = "apply"
                    => /\ changeSet'[r.changeSetId].status = "APPLIED"
                       /\ changeSet'[r.changeSetId].taskId \in 1..Len(task')
                       /\ task'[changeSet'[r.changeSetId].taskId].type = "APPLY_CHANGESET"
                       /\ task' = task /\ inventoryItem' = inventoryItem
                       /\ changeSet' = changeSet
                 /\ r.op = "approve"
                    => /\ changeSet'[r.changeSetId].status = "APPROVED"
                       /\ changeSet' = changeSet
                 /\ r.op = "setStatus"
                    => /\ task'[r.taskId].status = r.status
                       /\ task' = task
                 /\ r.op = "assign" => Named(r) \in Rows(taskActor')
                 /\ r.op = "capture"
                    => /\ Len(changeSet') = Len(changeSet) + 1
                       /\ Len(question') = Len(question) + 1
                       /\ lensRun'[Len(lensRun')].status = "COMPLETED"
                 /\ r.op = "createChangeSet" => Len(changeSet') = Len(changeSet) + 1]_vars

\* an apply answered 200 whose APPLY_CHANGESET entry was lost: the ChangeSet is
\* APPLIED, the planned task and the bookkeeping task are stored
C19_Witness ==
    \E q \in Requests :
        /\ req[q].op = "apply" /\ req[q].pc = "done" /\ req[q].resp = 200
        /\ changeSet[req[q].changeSetId].status = "APPLIED"
        /\ changeSet[req[q].changeSetId].type = "WEEKLY_MEAL_PLAN"
        /\ Len(task) = 2
        /\ consoleErrors >= 1
        /\ \A i \in 1..Len(auditLog) : auditLog[i].action # "APPLY_CHANGESET"

\* the rows of every table but the audit log
tables == <<actor, answer, goal, planning, entity, location, entityActor, taskActor, changeSet, question, task, inventoryItem, sensor,
            lens, track, lensRun>>

\* C20: a request answered 200 in one step that created, updated or deleted a
\* row of some table, while audit writes succeed, appended an AuditLog row.
C20_EveryMutationAudited ==
    [][\A q \in Requests :
          /\ Free(q) /\ Step(q)
          /\ req'[q].pc = "done" /\ req'[q].resp = 200
          /\ tables' # tables
          /\ ~auditDown
          => Len(auditLog') = Len(auditLog) + 1]_vars

\* C21: the AuditLog is append-only: in every step the rows of the previous
\* state are the first rows of the next state, unchanged and in the same order.
C21_AuditAppendOnly ==
    [][/\ Len(auditLog') >= Len(auditLog)
       /\ SubSeq(auditLog', 1, Len(auditLog)) = auditLog]_vars

\* the log holds the creation, the approval and the application of a ChangeSet,
\* in that order
C21_Witness ==
    /\ Len(auditLog) >= 3
    /\ auditLog[1].action = "CREATE_CHANGESET"
    /\ auditLog[2].action = "APPROVE_CHANGESET"
    /\ auditLog[3].action = "APPLY_CHANGESET"

\* C22: a request answered 400, 401 or 403 leaves every table, the Actor table
\* and the audit log included, as it was when the request arrived.
C22_RejectionsHaveNoEffect ==
    [][\A q \in Requests :
          /\ Free(q) /\ Step(q)
          /\ req'[q].pc = "done" /\ req'[q].resp \in {400, 401, 403}
          => store' = store]_vars

\* C23: an approve by an ADMIN on a ChangeSet that is already APPROVED goes on
\* to its update, which leaves every column but approvedAt as it was (status
\* APPROVED) and stamps approvedAt anew, and answers 200; an apply by an ADMIN
\* on an APPROVED ChangeSet is let through whatever approvedAt is.
C23_ReapproveIdempotent ==
    [][\A q \in Requests :
          LET r == req[q]
              id == r.changeSetId
          IN  /\ Step(q) /\ r.op = "approve" /\ r.pc = "authorize"
                 /\ r.snap.status = "APPROVED" /\ IsAdmin(r.actorId)
                 => req'[q].pc = "update"
              /\ Step(q) /\ r.op = "approve" /\ r.pc = "update"
                 /\ changeSet[id].status = "APPROVED"
                 => /\ changeSet' = [changeSet EXCEPT ![id].approvedAt = clock']
                    /\ clock' = clock + 1
                    /\ changeSet'[id].status = "APPROVED"
              /\ Step(q) /\ r.op = "approve" /\ r.pc = "audit"
                 => req'[q].pc = "done" /\ req'[q].resp = 200
              /\ Step(q) /\ r.op = "apply" /\ r.pc = "authorize"
                 /\ r.snap.status = "APPROVED" /\ IsAdmin(r.actorId)
                 => req'[q].pc # "done"]_vars

\* a ChangeSet approved twice, its approvedAt being the second stamp, and then
\* applied
C23_Witness ==
    \E id \in ChangeSetIds :
        /\ changeSet[id].status = "APPLIED"
        /\ changeSet[id].approvedAt = 2
        /\ changeSet[id].appliedAt = 3
        /\ AuditCount("APPROVE_CHANGESET", id) = 2

\* the Questions of a ChangeSet that have an Answer
Answered(id) ==
    {i \in 1..Len(question) :
        /\ question[i].changeSetId = id
        /\ \E j \in 1..Len(answer) : answer[j].questionId = i}

\* C24: answering a Question leaves every ChangeSet as it was; approve goes
\* past its tests exactly when the actor is an ADMIN and the ChangeSet is not
\* APPLIED, and apply exactly when the actor is an ADMIN and the ChangeSet is
\* APPROVED, whether or not an Answer exists; no step of approve or apply
\* touches the Answer table.
C24_AnswersDoNotGate ==
    [][\A q \in Requests :
          LET r == req[q]
          IN  /\ Step(q) /\ req'[q].op = "answer" => changeSet' = changeSet
              /\ Step(q) /\ req'[q].op \in {"approve", "apply"} => answer' = answer
              /\ Step(q) /\ r.op = "approve" /\ r.pc = "authorize"
                 => (req'[q].pc = "update"
                       <=> IsAdmin(r.actorId) /\ r.snap.status # "APPLIED")
              /\ Step(q) /\ r.op = "apply" /\ r.pc = "authorize"
                 => (req'[q].pc # "done"
                       <=> IsAdmin(r.actorId) /\ r.snap.status = "APPROVED")]_vars

\* an apply has answered 200 on a ChangeSet whose Question was answered while
\* the ChangeSet was still PENDING or APPROVED
C24_Witness ==
    \E q \in Requests :
        /\ req[q].op = "apply" /\ req[q].pc = "done" /\ req[q].resp = 200
        /\ changeSet[req[q].changeSetId].status = "APPLIED"
        /\ Answered(req[q].changeSetId) # {}

\* C25: a createTrack request by a member answers NotFound (404) and adds no
\* Track and no LensRun when the entity has no Sensor of the requested type;
\* otherwise it answers 200 and adds exactly one Track and, exactly when a Lens
\* of the requested type is registered, one PENDING LensRun of that Track; it
\* adds no ChangeSet and no Question and leaves the other LensRuns as they were.
C25_CreateTrack ==
    [][\A q \in Requests :
          /\ Step(q) /\ req'[q].op = "createTrack"
          /\ assertMembership(E1, req'[q].actorId, AnyRole)
          => LET r == req'[q]
                 hasSensor == \E i \in 1..Len(sensor') :
                                 sensor'[i].entityId = E1 /\ sensor'[i].type = r.sensorType
                 hasLens == \E i \in 1..Len(lens') : lens'[i] = r.lensType
             IN  /\ changeSet' = changeSet /\ question' = question
                 /\ IF ~hasSensor
                    THEN r.resp = 404 /\ track' = track /\ lensRun' = lensRun
                    ELSE /\ r.resp = 200
                         /\ Len(track') = Len(track) + 1
                         /\ SubSeq(track', 1, Len(track)) = track
                         /\ IF hasLens
                            THEN /\ Len(lensRun') = Len(lensRun) + 1
                                 /\ SubSeq(lensRun', 1, Len(lensRun)) = lensRun
                                 /\ lensRun'[Len(lensRun')].status = "PENDING"
                                 /\ lensRun'[Len(lensRun')].trackId = Len(track')
                                 /\ lensRun'[Len(lensRun')].lensType = r.lensType
                            ELSE lensRun' = lensRun]_vars

\* C26: there is at most one Goal per (entity, type WEEKLY_MEAL_PLAN,
\* periodStart).
C26_OneGoalPerPeriod ==
    \A i, j \in 1..Len(goal) :
        /\ goal[i].entityId = goal[j].entityId
        /\ goal[i].type = "WEEKLY_MEAL_PLAN" /\ goal[j].type = "WEEKLY_MEAL_PLAN"
        /\ goal[i].periodStart = goal[j].periodStart
        => i = j

\* the chain of parents of Location i, at most n steps up
RECURSIVE AncestorsWithin(_, _)
AncestorsWithin(i, n) ==
    IF n = 0 \/ location[i].parentId \notin 1..Len(location) THEN {}
    ELSE {location[i].parentId} \cup AncestorsWithin(location[i].parentId, n - 1)

\* C27: the Location rows form a forest without cycles, and every Location
\* with a parent belongs to the entity of that parent.
C27_LocationForest ==
    \A i \in 1..Len(location) :
        /\ i \notin AncestorsWithin(i, Len(location))
        /\ location[i].parentId # 0
           => /\ location[i].parentId \in 1..Len(location)
              /\ location[location[i].parentId].entityId = location[i].entityId

\* the item names the row it is about
HasTriple(item) == item.resourceId # None /\ item.locationId # None

\* the items of a payload the applier acts on, in payload order
Kept(items) == SelectSeq(items, HasTriple)

\* the item asks for a deletion: no TO_BUY, and DELETE or a quantity <= 0
IsDeletion(item) ==
    /\ item.action # "TO_BUY"
    /\ item.action = "DELETE" \/ (item.quantity # None /\ item.quantity[1] <= 0)

\* the entry the applier's result holds for an item
ResultAction(item) ==
    IF item.action = "TO_BUY" THEN "to-buy"
    ELSE IF IsDeletion(item) THEN "deleted"
    ELSE "upserted"

\* the InventoryItem rows that differ between two states of the table
ChangedRows(old, new) ==
    {i \in 1..Len(new) : i > Len(old) \/ new[i] # old[i]}

\* slot q takes a step of an apply of an INVENTORY_DIFF ChangeSet that has
\* passed the status test
DiffStep(q) ==
    /\ Step(q) /\ ~Free(q)
    /\ req[q].op = "apply" /\ req[q].pc # "authorize"
    /\ req[q].snap.type = "INVENTORY_DIFF"

\* C28: the applier takes one store step per item that has both resourceId
\* and locationId, in payload order, and none for the other items: the k-th
\* step is about the k-th such item, adds the k-th entry of the result, and
\* writes only a Task or InventoryItem rows of that item; bookkeeping starts
\* when every such item has its entry; no step of the apply ends in an error,
\* and the apply answers 200 with the ChangeSet APPLIED.
C28_SkipsPartialItems ==
    [][\A q \in Requests :
          DiffStep(q)
          => LET r == req[q]
                 kept == Kept(r.snap.payload.items)
                 k == Len(r.result) + 1
             IN  /\ r.pc = "applier"
                    => /\ k <= Len(kept)
                       /\ r.snap.payload.items[r.idx] = kept[k]
                       /\ Len(req'[q].result) = k
                       /\ req'[q].result[k].action = ResultAction(kept[k])
                       /\ req'[q].pc \in {"applier", "bookkeeping"}
                       /\ \A i \in ChangedRows(inventoryItem, inventoryItem') :
                             \/ i \in ItemsAt(inventoryItem, r.snap.entityId,
                                               kept[k].resourceId[1], kept[k].locationId[1])
                             \/ i \in ItemsAt(inventoryItem', r.snap.entityId,
                                               kept[k].resourceId[1], kept[k].locationId[1])
                       /\ task' # task
                          => /\ Len(task') = Len(task) + 1
                             /\ SubSeq(task', 1, Len(task)) = task
                             /\ task'[Len(task')].metadata[1].resourceId = kept[k].resourceId[1]
                             /\ task'[Len(task')].metadata[1].locationId = kept[k].locationId[1]
                 /\ r.pc = "bookkeeping" => Len(r.result) = Len(kept)
                 /\ r.pc # "applier" => inventoryItem' = inventoryItem
                 /\ r.pc \notin {"applier", "bookkeeping"} => task' = task
                 /\ req'[q].pc = "done"
                    => /\ req'[q].resp = 200
                       /\ changeSet'[r.changeSetId].status = "APPLIED"
                       /\ Len(req'[q].result) = Len(kept)]_vars

\* a payload with items the applier skips before and between the others
HasSkippedItems(cs) ==
    /\ cs.type = "INVENTORY_DIFF"
    /\ Len(cs.payload.items) = 4
    /\ ~HasTriple(cs.payload.items[1]) /\ ~HasTriple(cs.payload.items[3])

\* such a payload was applied: the quantity update, then the to-buy task
C28_Witness ==
    \E q \in Requests :
        /\ req[q].pc = "done" /\ req[q].op = "apply" /\ req[q].resp = 200
        /\ HasSkippedItems(changeSet[req[q].changeSetId])
        /\ changeSet[req[q].changeSetId].status = "APPLIED"
        /\ Len(req[q].result) = 2
        /\ req[q].result[1].action = "upserted" /\ req[q].result[2].action = "to-buy"
        /\ Len(inventoryItem) = 1
        /\ inventoryItem[1] = NewInventoryItem(E1, "R1", "L1", 5)
        /\ Len(task) = 2 /\ task[1].type = "BUY_RESOURCE"

\* C29: the applier's step for a deletion leaves no InventoryItem of the
\* item's (entity, resource, location), changes no other InventoryItem and no
\* other table, and goes on to the next item; when there is no such
\* InventoryItem the step changes nothing in the store. A second step for the
\* same deletion therefore leaves the state the first one made.
C29_DeleteIdempotent ==
    [][\A q \in Requests :
          /\ DiffStep(q) /\ req[q].pc = "applier"
          /\ IsDeletion(req[q].snap.payload.items[req[q].idx])
          => LET r == req[q]
                 item == r.snap.payload.items[r.idx]
                 rows == ItemsAt(inventoryItem, r.snap.entityId,
                                 item.resourceId[1], item.locationId[1])
             IN  /\ ItemsAt(inventoryItem', r.snap.entityId,
                            item.resourceId[1], item.locationId[1]) = {}
                 /\ ChangedRows(inventoryItem, inventoryItem') = rows
                 /\ \A i \in rows : ~inventoryItem'[i].live
                 /\ rows = {} => store' = store
                 /\ task' = task /\ changeSet' = changeSet /\ auditLog' = auditLog
                 /\ question' = question
                 /\ req'[q].pc \in {"applier", "bookkeeping"}
                 /\ req'[q].result = Append(r.result, [action |-> "deleted", id |-> 0])]_vars

\* a payload that asks for the same deletion twice
DeletesTwice(cs) ==
    /\ cs.type = "INVENTORY_DIFF"
    /\ Len(cs.payload.items) = 2
    /\ cs.payload.items[1] = cs.payload.items[2]
    /\ cs.payload.items[1].action = "DELETE"

\* the row direct creation made is gone after both deletions were applied
C29_Witness ==
    \E q \in Requests :
        /\ req[q].pc = "done" /\ req[q].op = "apply" /\ req[q].resp = 200
        /\ DeletesTwice(changeSet[req[q].changeSetId])
        /\ changeSet[req[q].changeSetId].status = "APPLIED"
        /\ Len(req[q].result) = 2
        /\ Len(inventoryItem) = 1 /\ ~inventoryItem[1].live

\* the item asks for a quantity update: a positive quantity, no TO_BUY or DELETE
IsUpdate(item) ==
    /\ item.action \notin {"TO_BUY", "DELETE"}
    /\ item.quantity # None /\ item.quantity[1] > 0

\* C30: the applier's step for a quantity update of q leaves exactly the
\* InventoryItem of the item's (resource, entity, location) with quantity q,
\* whatever its quantity was: the row that was there, or a new row when there
\* was none; no other InventoryItem changes.
C30_UpsertReplaces ==
    [][\A q \in Requests :
          /\ DiffStep(q) /\ req[q].pc = "applier"
          /\ IsUpdate(req[q].snap.payload.items[req[q].idx])
          => LET r == req[q]
                 item == r.snap.payload.items[r.idx]
                 e == r.snap.entityId
                 rows == ItemsAt(inventoryItem, e, item.resourceId[1], item.locationId[1])
                 rows2 == ItemsAt(inventoryItem', e, item.resourceId[1], item.locationId[1])
             IN  /\ Cardinality(rows2) = 1
                 /\ \A i \in rows2 : inventoryItem'[i].quantity = item.quantity[1]
                 /\ rows # {} => rows2 = rows /\ Len(inventoryItem') = Len(inventoryItem)
                 /\ rows = {} => inventoryItem' =
                                    Append(inventoryItem,
                                           NewInventoryItem(e, item.resourceId[1],
                                                            item.locationId[1], item.quantity[1]))
                 /\ ChangedRows(inventoryItem, inventoryItem') \subseteq rows2
                 /\ task' = task]_vars

\* a payload with two quantity updates of one row
UpdatesTwice(cs) ==
    /\ cs.type = "INVENTORY_DIFF"
    /\ Len(cs.payload.items) = 2
    /\ IsUpdate(cs.payload.items[1]) /\ IsUpdate(cs.payload.items[2])
    /\ cs.payload.items[1].quantity # cs.payload.items[2].quantity

\* the one row of (E1, R1, L1) holds the last quantity, 2, after updates to 5
\* and to 2 were applied
C30_Witness ==
    \E q \in Requests :
        /\ req[q].pc = "done" /\ req[q].op = "apply" /\ req[q].resp = 200
        /\ UpdatesTwice(changeSet[req[q].changeSetId])
        /\ changeSet[req[q].changeSetId].status = "APPLIED"
        /\ Len(inventoryItem) = 1
        /\ inventoryItem[1] = NewInventoryItem(E1, "R1", "L1", 2)

\* the ChangeSet type has no applier
NoApplier(type) == type \notin {"INVENTORY_DIFF", "WEEKLY_MEAL_PLAN"}

\* C31: the apply of an APPROVED ChangeSet whose type has no applier goes from
\* the status test straight to bookkeeping, never answers an error, writes no
\* InventoryItem and no Task other than the one DONE APPLY_CHANGESET task of
\* its bookkeeping step, sets the status to APPLIED, adds one APPLY_CHANGESET
\* audit entry, and answers 200 with an empty applier result.
C31_UnknownTypeNoOp ==
    [][\A q \in Requests :
          /\ Step(q) /\ ~Free(q) /\ req[q].op = "apply"
          /\ NoApplier(req[q].snap.type)
          => LET r == req[q]
                 id == r.changeSetId
             IN  /\ inventoryItem' = inventoryItem
                 /\ r.pc # "applier"
                 /\ r.pc = "authorize" /\ r.snap.status = "APPROVED" /\ IsAdmin(r.actorId)
                    => req'[q].pc = "bookkeeping"
                 /\ r.pc = "bookkeeping"
                    => /\ Len(task') = Len(task) + 1
                       /\ SubSeq(task', 1, Len(task)) = task
                       /\ task'[Len(task')].type = "APPLY_CHANGESET"
                       /\ task'[Len(task')].status = "DONE"
                       /\ changeSet'[id].taskId = Len(task')
                       /\ req'[q].pc = "update"
                 /\ r.pc # "bookkeeping" => task' = task
                 /\ r.pc = "update"
                    => changeSet'[id].status = "APPLIED" /\ req'[q].pc = "audit"
                 /\ r.pc = "audit"
                    => /\ AuditCount("APPLY_CHANGESET", id)' =
                             AuditCount("APPLY_CHANGESET", id) + 1
                       /\ req'[q].pc = "done" /\ req'[q].resp = 200
                       /\ req'[q].result = <<>>
                       /\ changeSet'[id].status = "APPLIED"]_vars

\* a ChangeSet of type NOTE was applied: one task, the bookkeeping task
C31_Witness ==
    \E q \in Requests :
        /\ req[q].pc = "done" /\ req[q].op = "apply" /\ req[q].resp = 200
        /\ NoApplier(changeSet[req[q].changeSetId].type)
        /\ changeSet[req[q].changeSetId].status = "APPLIED"
        /\ Len(task) = 1 /\ task[1].type = "APPLY_CHANGESET"
        /\ changeSet[req[q].changeSetId].taskId = 1
        /\ inventoryItem = <<>>
        /\ AuditCount("APPLY_CHANGESET", req[q].changeSetId) = 1

\* the four conditions of the special case of setStatus, on the task row as it
\* was before the request and the status of the body
SpecialCase(before, status) ==
    /\ before.type = "BUY_RESOURCE"
    /\ before.status # "DONE"
    /\ status = "DONE"
    /\ before.metadata # None /\ before.metadata[1].inventoryItemId # None

\* C32: a step of a setStatus request changes InventoryItem rows only as the
\* upsert step of a request in the special case; a request outside the special
\* case has no upsert step, and its steps change nothing but the status of its
\* task and the audit log.
C32_SetStatusFrame ==
    [][\A q \in Requests :
          Step(q) /\ req'[q].op = "setStatus" /\ (Free(q) \/ req[q].op = "setStatus")
          => LET r == req[q]
                 special == SpecialCase(r.existing, r.status)
             IN  /\ Free(q) => store' = store
                 /\ ~Free(q)
                    => /\ inventoryItem' # inventoryItem => r.pc = "upsert" /\ special
                       /\ r.pc = "upsert" => special
                       /\ ~special
                          => /\ req'[q].pc # "upsert"
                             /\ inventoryItem' = inventoryItem
                             /\ \/ /\ r.pc = "update"
                                   /\ task' = [task EXCEPT ![r.taskId].status = r.status]
                                   /\ auditLog' = auditLog
                                \/ /\ r.pc = "audit"
                                   /\ task' = task
                                   /\ Len(auditLog') = Len(auditLog) + 1
                                   /\ auditLog'[Len(auditLog')].action = "UPDATE_TASK_STATUS"
                             /\ <<actor, answer, goal, planning, entity, location,
                                  entityActor, taskActor, changeSet, question, sensor, lens,
                                  track, lensRun>>' =
                                <<actor, answer, goal, planning, entity, location,
                                  entityActor, taskActor, changeSet, question, sensor, lens,
                                  track, lensRun>>]_vars

\* a to-buy task derived from a payload item without inventoryItemId was set
\* DONE next to an InventoryItem of its resource and location, which kept its
\* quantity
C32_Witness ==
    \E q \in Requests :
        /\ req[q].pc = "done" /\ req[q].op = "setStatus" /\ req[q].resp = 200
        /\ task[req[q].taskId].type = "BUY_RESOURCE"
        /\ task[req[q].taskId].status = "DONE"
        /\ task[req[q].taskId].tags = <<"to-buy">>
        /\ task[req[q].taskId].metadata[1].inventoryItemId = None
        /\ Len(inventoryItem) = 1
        /\ inventoryItem[1] = NewInventoryItem(E1, "R1", "L1", 3)

\* task t is a to-buy task about InventoryItem i
ToBuyTaskOf(t, i) ==
    /\ task[t].type = "BUY_RESOURCE"
    /\ task[t].tags = <<"to-buy">>
    /\ task[t].metadata # None
    /\ task[t].metadata[1].inventoryItemId = Some(i)

\* a setStatus request on task t has written the status and not yet the
\* InventoryItem
UpsertPending(t) ==
    \E q \in Requests :
        req[q].op = "setStatus" /\ req[q].pc = "upsert" /\ req[q].taskId = t

\* the quantities of the to-buy tasks about InventoryItem i, among the first n
\* tasks, that are DONE with their upsert behind them
RECURSIVE Bought(_, _)
Bought(i, n) ==
    IF n = 0 THEN 0
    ELSE Bought(i, n - 1) +
         (IF ToBuyTaskOf(n, i) /\ task[n].status = "DONE" /\ ~UpsertPending(n)
          THEN task[n].metadata[1].quantity ELSE 0)

\* the quantity direct creation gave the InventoryItem
InitialQuantity == CHOOSE n \in DirectQuantityInputs : TRUE

\* the to-buy ChangeSets that are APPLIED, and the to-buy tasks
AppliedToBuys ==
    {id \in ChangeSetIds : /\ changeSet[id].subjectType = "INVENTORY"
                           /\ changeSet[id].status = "APPLIED"}
ToBuyTasks == {t \in 1..Len(task) : task[t].tags = <<"to-buy">>}

\* the InventoryItem holds its first quantity plus what was bought, and every
\* APPLIED to-buy ChangeSet has its derived task with the requested quantity
ToBuyConsistent ==
    /\ Len(inventoryItem) <= 1
    /\ \A i \in 1..Len(inventoryItem) :
          /\ inventoryItem[i].live
          /\ inventoryItem[i].quantity = InitialQuantity + Bought(i, Len(task))
    /\ \A id \in AppliedToBuys :
          \E t \in ToBuyTasks :
             /\ ToBuyTaskOf(t, changeSet[id].subjectId)
             /\ task[t].metadata[1].quantity = changeSet[id].payload.items[1].quantity[1]
             /\ task[t].metadata[1].quantity \in
                   {1} \cup {n[1] : n \in QuantityInputs \ {None}}

\* C33: with requests running one after the other, an InventoryItem I created
\* with quantity q0 holds q0 plus the quantities of the to-buy requests about
\* it whose derived task has been set DONE, and q0 as long as none has; every
\* APPLIED to-buy ChangeSet has its derived task, whose metadata carries the
\* quantity of the request (1 when it had none); there is never a second
\* InventoryItem row, and only the upsert step of setStatus changes the row:
\* it adds the quantity of the task's metadata.
C33_ToBuyEndToEnd ==
    [][/\ ToBuyConsistent'
       /\ inventoryItem # <<>> /\ inventoryItem' # inventoryItem
          => \E q \in Requests :
                /\ req[q].op = "setStatus" /\ req[q].pc = "upsert"
                /\ ToBuyTaskOf(req[q].taskId, 1)
                /\ inventoryItem' =
                      [inventoryItem EXCEPT ![1].quantity =
                          @ + task[req[q].taskId].metadata[1].quantity]]_vars

\* the whole flow has run with quantity 2 on a row of quantity 3
C33_Witness ==
    /\ Len(inventoryItem) = 1
    /\ inventoryItem[1] = NewInventoryItem(E1, "R1", "L1", 5)
    /\ \E id \in AppliedToBuys : changeSet[id].payload.items[1].quantity = Some(2)
    /\ \E t \in ToBuyTasks : ToBuyTaskOf(t, 1) /\ task[t].status = "DONE"
    /\ \E q \in Requests :
          req[q].op = "setStatus" /\ req[q].pc = "done" /\ req[q].resp = 200

\* an apply request is between its status test and its response
ApplyInFlight ==
    \E q \in Requests :
        req[q].op = "apply" /\ req[q].pc \in {"applier", "bookkeeping", "update", "audit"}

\* C34: apply is all-or-nothing. Where every Task and every InventoryItem is
\* written by the apply of a ChangeSet: while no apply is under way and no
\* ChangeSet is APPLIED, there is no Task and no InventoryItem.
C34_ApplyAllOrNothing ==
    /\ ~ApplyInFlight
    /\ \A id \in ChangeSetIds : changeSet[id].status # "APPLIED"
    => task = <<>> /\ inventoryItem = <<>>

\* C35: the upsert step of a setStatus request, which follows the write of
\* DONE to a BUY_RESOURCE task about an InventoryItem, either applies the
\* increment (it adds metadata.quantity to the row, or creates the row with
\* it) or does not leave the task DONE.
C35_DoneImpliesIncrement ==
    [][\A q \in Requests :
          Step(q) /\ req[q].op = "setStatus" /\ req[q].pc = "upsert"
          => LET r == req[q]
                 meta == r.existing.metadata[1]
                 id == meta.inventoryItemId[1]
             IN  \/ /\ id \in 1..Len(inventoryItem')
                    /\ inventoryItem'[id].live
                    /\ inventoryItem'[id].quantity =
                          meta.quantity + (IF id \in 1..Len(inventoryItem)
                                              /\ inventoryItem[id].live
                                           THEN inventoryItem[id].quantity ELSE 0)
                 \/ task'[r.taskId].status # "DONE"]_vars

\* the APPLY_CHANGESET tasks ChangeSet id is connected to
LinkedBookkeeping(id) ==
    {t \in BookkeepingTasks : changeSet[id].taskId = t}

\* C36: an APPLIED ChangeSet has approvedAt and appliedAt set and an
\* APPLY_CHANGESET task linked to it; a PENDING or APPROVED ChangeSet has no
\* appliedAt, and a PENDING one has no approvedAt.
C36_TimestampsMatchStatus ==
    \A id \in ChangeSetIds :
        LET cs == changeSet[id]
        IN  /\ cs.status = "APPLIED"
               => cs.approvedAt # 0 /\ cs.appliedAt # 0 /\ LinkedBookkeeping(id) # {}
            /\ cs.status \in {"PENDING", "APPROVED"} => cs.appliedAt = 0
            /\ cs.status = "PENDING" => cs.approvedAt = 0

\* the actor has an Actor row and no membership of the household
NonMember(actorId) ==
    /\ actorId \in actor
    /\ \A m \in entityActor : ~(m.entityId = E1 /\ m.actorId = actorId)

\* the tables whose rows belong to one entity
entityTables == <<task, inventoryItem, track, lensRun, changeSet, question>>

\* C37: no step of a request by an Actor who is no member of the household
\* changes a Task, InventoryItem, Track, LensRun, ChangeSet or Question of the
\* household, and no such request is answered 200. (Joining and the
\* membership bootstrap write EntityActor rows only.)
C37_MembersOnlyWrite ==
    [][\A q \in Requests :
          Step(q) /\ NonMember(req'[q].actorId)
          /\ req'[q].op \in {"setStatus", "tags", "capture"}
          => /\ entityTables' = entityTables
             /\ req'[q].pc = "done" => req'[q].resp # 200]_vars

\* the ADMIN memberships of an entity
AdminsOf(entityId) == {m \in entityActor : m.entityId = entityId /\ m.role = "ADMIN"}

\* one EntityActor row per (entity, actor), and one ADMIN per entity at most
OneAdminPerEntity ==
    /\ \A m, n \in entityActor :
          m.entityId = n.entityId /\ m.actorId = n.actorId => m = n
    /\ \A e \in EntityIds : Cardinality(AdminsOf(e)) <= 1

\* C38: the membership a join request creates is ADMIN when the entity has no
\* membership at that moment and MEMBER otherwise; a join by an actor who is a
\* member answers with the membership and writes nothing; so there is one
\* EntityActor row per (entity, actor), and of the actors joining an entity
\* without memberships exactly one becomes ADMIN, in every interleaving.
C38_JoinRoles ==
    [][/\ OneAdminPerEntity'
       /\ \A q \in Requests :
             Step(q) /\ req'[q].op = "join"
             => /\ entityActor' # entityActor
                   => entityActor' = entityActor \cup
                         {[entityId |-> req[q].entityId, actorId |-> req[q].actorId,
                           role |-> IF MembershipsOf(req[q].entityId) = {}
                                    THEN "ADMIN" ELSE "MEMBER"]}
                /\ Free(q) /\ (\E m \in MembershipsOf(req'[q].entityId) :
                                  m.actorId = req'[q].actorId)
                   => /\ store' = store
                      /\ req'[q].pc = "done" /\ req'[q].resp = 200]_vars

\* C39: auto-provisioning is idempotent: whatever createTrack,
\* capture-and-process, entity creation and demo-seed requests have run or are
\* running, there is at most one Sensor per (entity, type) for MOBILE_CAMERA
\* and WEB_UPLOAD and at most one Lens per type for INVENTORY_LENS and
\* MEAL_PLAN_LENS.
C39_ProvisionOnce ==
    /\ \A e \in entity : \A i \in 1..Len(defaultSensorTypes) :
          Cardinality(SensorsOf(e, defaultSensorTypes[i])) <= 1
    /\ \A i \in 1..Len(defaultLensTypes) :
          Cardinality({j \in 1..Len(lens) : lens[j] = defaultLensTypes[i]}) <= 1

====
